---- MODULE Spec2Model ----
(***************************************************************************)
(* A model of the rules engine of fm-agent: the ledger tables of           *)
(* db/database.py, the ledger tools of agents/tabulator.py, the conflict   *)
(* query of agents/crew.py, the backward milestone plan of                 *)
(* agents/onboarding.py and the Steward sweep of agents/steward.py.        *)
(*                                                                         *)
(* Time is counted in ticks, TicksPerDay ticks to a day, so that           *)
(* timedelta.days (a floor) is a real conversion.  Every table is a        *)
(* sequence of rows; a row's id is its index.                              *)
(***************************************************************************)
EXTENDS Integers, Sequences, FiniteSets, TLC

VARIABLES
    now,                \* the wall clock, datetime.now(), in ticks
    clockSteps,         \* how many times the clock has been advanced
    family_members,     \* table family_members
    inventory_items,    \* table inventory_items
    claims,             \* table claims
    distributions,      \* table distributions
    item_suggestions,   \* table item_suggestions
    estate_milestones,  \* the home estate's milestone rows, by key
    timeline_alerts,    \* the rows of timeline_alerts whose active flag is set
    audit_log,          \* table audit_log
    lastOp,             \* "run_steward" right after a sweep, else "other"
    intent_notes,       \* table intent_notes
    USE_POSTGRES,       \* database.py USE_POSTGRES: the backend in use
    raised,             \* the exception the last operation raised, or "none"
    call,               \* the last call of a note operation, of a listener
                        \* or of _finalize_schedule with its arguments,
                        \* << >> after any other operation
    conversation_state, \* the row of table conversation_state
    estate_schedule,    \* the home estate's schedule row, None before
                        \* save_schedule
    response,           \* the last message sent to the executor
    memories,           \* table memories
    estate_status,      \* estates.status of the home estate
    sweep_pc,           \* where each running sweep of the home estate stands
    updates,            \* the updates Telegram holds unacknowledged
    arrived,            \* the texts of the updates Telegram has received, by id
    last_update_id,     \* webhook.py last_update_id
    handled,            \* the update ids poll has given to handle_message
    notified_suggestion_ids, \* scheduler.py _notified_suggestion_ids
    notifications       \* the calls of run_suggestion_notification made by
                        \* suggestion_check_job, each returned or raised

vars == <<now, clockSteps, family_members, inventory_items, claims,
          distributions, item_suggestions, estate_milestones,
          timeline_alerts, audit_log, lastOp, intent_notes, USE_POSTGRES,
          raised, call, conversation_state, estate_schedule, response,
          memories, estate_status, sweep_pc, updates, arrived,
          last_update_id, handled, notified_suggestion_ids, notifications>>

process_vars == <<estate_status, sweep_pc, updates, arrived, last_update_id,
                  handled, notified_suggestion_ids, notifications>>

session_vars == <<conversation_state, estate_schedule, response, memories>>

----------------------------------------------------------------------------
(* Bounds of the model *)

TicksPerDay == 2
MaxClockSteps == 2
MaxMembers == 2
MaxItems == 2
MaxClaims == 2
MaxDistributions == 2
MaxSuggestions == 1
MaxRejects == 1
MaxNotes == 2
MaxVisibilityChanges == 2
MaxAuditEntries == 4
MaxMemories == 2
MaxUpdates == 3
MaxHandled == 3
MaxAttempts == 2

----------------------------------------------------------------------------
(* Program constants *)

member_invite_warning_days == 7
member_invite_critical_days == 14
suggestion_review_warning_days == 2
suggestion_review_critical_days == 5
conflict_warning_days == 5
conflict_critical_days == 10
milestone_warning_days == 5
inactivity_days == 7

HomeEstate == 1
Estates == {HomeEstate, HomeEstate + 1}

MILESTONE_KEYS ==
    << "onboarding_complete", "inventory_complete", "family_joined",
       "claims_open", "claims_closed", "conflicts_resolved",
       "distribution_complete" >>

min_total_days == 30

Roles == {"executor", "member"}
Claimants == {1, 2}
NoTime == 0 - 1

\* the sweeps that may run at the same time: the one inside the morning
\* briefing and the daily steward sweep job
Sweepers == {"morning_job", "steward_sweep_job"}

\* webhook.py last_update_id = None: no update seen yet
NoUpdate == 0 - 1

\* Python's None in a text column or argument, a string of free text, an
\* ISO date string YYYY-MM-DD, and the JSON text of a dict
None == [ kind |-> "none" ]
Text(t) == [ kind |-> "text", text |-> t ]
IsoDate(day) == [ kind |-> "date", day |-> day ]
json_dumps(d) == [ kind |-> "json", dict |-> d ]

----------------------------------------------------------------------------
(* Helpers *)

\* timedelta.days of a difference of two timestamps: the floor of the days
Days(delta) == delta \div TicksPerDay

Indices(s) == [i \in 1..Len(s) |-> i]

RECURSIVE FoldSeq(_, _, _)
FoldSeq(Op(_, _), acc, s) ==
    IF s = <<>> THEN acc ELSE FoldSeq(Op, Op(acc, Head(s)), Tail(s))

\* faulty variant of MinOf: the newest instead of the oldest
NewestOf(S) == CHOOSE x \in S : \A y \in S : x >= y

MinOf(S) == CHOOSE x \in S : \A y \in S : x <= y
MaxOf(S) == CHOOSE x \in S : \A y \in S : x >= y

KeyIndex(key) == CHOOSE i \in 1..Len(MILESTONE_KEYS) : MILESTONE_KEYS[i] = key

----------------------------------------------------------------------------
(* db/database.py: the ledger tables *)

MemberNames == << "Peter Semmelhack", "Jane Smith" >>

\* faulty variant of write_audit: the newest row is overwritten (an UPDATE
\* where the code has an INSERT)
write_audit_overwriting(log, estate_id, actor_name, action_type, item_id) ==
    LET row == [ estate_id   |-> estate_id,
                 item_id     |-> item_id,
                 action_type |-> action_type,
                 actor_name  |-> actor_name,
                 created_at  |-> now ]
    IN  IF log = << >> THEN << row >> ELSE [ log EXCEPT ![Len(log)] = row ]

\* INSERT INTO audit_log: one new row, stamped datetime.now()
write_audit(log, estate_id, actor_name, action_type, item_id) ==
    Append(log, [ estate_id   |-> estate_id,
                  item_id     |-> item_id,
                  action_type |-> action_type,
                  actor_name  |-> actor_name,
                  created_at  |-> now ])

\* INSERT INTO family_members: status defaults to 'invited'
add_family_member(members, role) ==
    Append(members, [ role       |-> role,
                      status     |-> "invited",
                      invited_at |-> now,
                      joined_at  |-> NoTime ])

\* UPDATE family_members SET status='joined', joined_at=now WHERE join_code=?
\* (a member's join code is modelled by the member's id)
mark_member_joined(members, join_code) ==
    [ i \in DOMAIN members |->
        IF i = join_code
        THEN [ members[i] EXCEPT !.status = "joined", !.joined_at = now ]
        ELSE members[i] ]

\* INSERT INTO inventory_items: status defaults to 'unclaimed'
add_item(items, estate_id) ==
    Append(items, [ estate_id |-> estate_id, status |-> "unclaimed" ])

\* INSERT INTO claims: status defaults to 'pending'
add_claim(cl, item_id, estate_id, member_id, member_name) ==
    Append(cl, [ item_id     |-> item_id,
                 estate_id   |-> estate_id,
                 member_id   |-> member_id,
                 member_name |-> member_name,
                 status      |-> "pending",
                 created_at  |-> now ])

\* SELECT * FROM claims WHERE item_id=? AND status='pending'
get_item_claims(item_id) ==
    SelectSeq(claims, LAMBDA c : c.item_id = item_id /\ c.status = "pending")

\* resolve_claim: the three tables after the call
resolve_claim_items(item_id) ==
    [ i \in DOMAIN inventory_items |->
        IF i = item_id
        THEN [ inventory_items[i] EXCEPT !.status = "distributed" ]
        ELSE inventory_items[i] ]

resolve_claim_claims(item_id) ==
    [ c \in DOMAIN claims |->
        IF claims[c].item_id = item_id
        THEN [ claims[c] EXCEPT !.status = "resolved" ]
        ELSE claims[c] ]

resolve_claim_distributions(item_id, winner_member_id, winner_name) ==
    LET estate_id == IF item_id \in DOMAIN inventory_items
                     THEN inventory_items[item_id].estate_id
                     ELSE 0
    IN  IF estate_id # 0
        THEN Append(distributions, [ item_id     |-> item_id,
                                     estate_id   |-> estate_id,
                                     member_id   |-> winner_member_id,
                                     member_name |-> winner_name ])
        ELSE distributions

\* INSERT INTO item_suggestions: status defaults to 'pending'
add_suggestion(sugs, estate_id) ==
    Append(sugs, [ estate_id  |-> estate_id,
                   status     |-> "pending",
                   created_at |-> now ])

\* UPDATE item_suggestions SET status=? WHERE id=?
review_suggestion(sugs, suggestion_id, status) ==
    [ s \in DOMAIN sugs |->
        IF s = suggestion_id THEN [ sugs[s] EXCEPT !.status = status ]
        ELSE sugs[s] ]

\* timeline_alerts: write_alert inserts an active row
write_alert(alerts, alert_type, severity, subject) ==
    Append(alerts, [ alert_type |-> alert_type,
                     severity   |-> severity,
                     subject    |-> subject ])

\* timeline_alerts: resolve_alert_type clears the active flag of every row
\* of the type, which removes the rows from the active rows
resolve_alert_type(alerts, alert_type) ==
    SelectSeq(alerts, LAMBDA a : a.alert_type # alert_type)

\* the active rows of the estate
get_active_alerts == timeline_alerts

\* the milestone rows of the estate, in key order
get_milestones(ms) ==
    SelectSeq(MILESTONE_KEYS, LAMBDA k : k \in DOMAIN ms)

\* complete_milestone: a single-row status update; a milestone that is
\* absent or already complete is left as it is
complete_milestone(ms, key, notes) ==
    IF key \in DOMAIN ms /\ ms[key].status # "complete"
    THEN [ ms EXCEPT ![key].status = "complete", ![key].notes = notes ]
    ELSE ms

\* a faulty set_milestones: every row is written as pending
set_milestones_all_pending(plan) ==
    [ k \in { plan[i].key : i \in DOMAIN plan } |->
        LET m == plan[CHOOSE i \in DOMAIN plan : plan[i].key = k]
        IN  [ target_date |-> m.target_date,
              status      |-> "pending",
              notes       |-> "" ] ]

\* set_milestones: the plan replaces the estate's rows
set_milestones(plan) ==
    [ k \in { plan[i].key : i \in DOMAIN plan } |->
        LET m == plan[CHOOSE i \in DOMAIN plan : plan[i].key = k]
        IN  [ target_date |-> m.target_date,
              status      |-> m.status,
              notes       |-> "" ] ]

----------------------------------------------------------------------------
(* agents/onboarding.py: the milestone plan built backward from a deadline *)

\* The totals at which the float product total_days * 0.35 falls just short
\* of the whole number it should be, so that int() truncates one lower
\* (the cases up to 400 days; the other four weights have none there).
FloatShort35 == {180, 340, 360}

\* int(total_days * pct/100) as the float arithmetic computes it
int_weight(total_days, pct) ==
    (total_days * pct) \div 100
        - (IF pct = 35 /\ total_days \in FloatShort35 THEN 1 ELSE 0)

\* the weights dict of the backward branch, in days before the end date
weights(total_days) ==
    [ k \in { MILESTONE_KEYS[i] : i \in DOMAIN MILESTONE_KEYS } |->
        CASE k = "conflicts_resolved" -> int_weight(total_days, 10)
          [] k = "claims_closed"      -> int_weight(total_days, 25)
          [] k = "claims_open"        -> int_weight(total_days, 35)
          [] k = "family_joined"      -> int_weight(total_days, 15)
          [] k = "inventory_complete" -> int_weight(total_days, 20)
          [] OTHER                    -> 0 ]

\* build_milestone_schedule with a parsable target_end_date `end`
build_milestone_schedule(today, end) ==
    LET span       == Days(end - today)
        total_days == IF span < min_total_days THEN min_total_days ELSE span
        w          == weights(total_days)
    IN  [ i \in DOMAIN MILESTONE_KEYS |->
            LET key == MILESTONE_KEYS[i]
            IN  [ key |-> key,
                  target_date |->
                      IF key = "onboarding_complete" THEN today
                      ELSE IF key = "distribution_complete" THEN end
                      ELSE end - w[key] * TicksPerDay,
                  status |->
                      IF key = "onboarding_complete" THEN "complete"
                      ELSE "pending" ] ]

\* bool(target_end_date): None and the empty string are false
Truthy(value) ==
    IF value.kind = "none" THEN FALSE
    ELSE IF value.kind = "text" THEN value.text # ""
    ELSE TRUE

\* datetime.fromisoformat accepts the string: a date does, free text raises
IsIsoFormat(value) == value.kind = "date"

\* datetime.fromisoformat of a date string: midnight of that day
fromisoformat(value) == value.day * TicksPerDay

\* a faulty multiplier: the factors of urgent and relaxed exchanged
multiplier_exchanged(urgency) ==
    CASE urgency = "urgent"  -> 15
      [] urgency = "normal"  -> 10
      [] urgency = "relaxed" -> 6
      [] OTHER               -> 10

\* multiplier = {"urgent": 0.6, "normal": 1.0, "relaxed": 1.5}.get(urgency, 1.0),
\* in tenths
multiplier(urgency) ==
    CASE urgency = "urgent"  -> 6
      [] urgency = "normal"  -> 10
      [] urgency = "relaxed" -> 15
      [] OTHER               -> 10

\* the tables DEFAULT_DURATIONS_DAYS may be: a day per phase, a month per
\* phase, phases of different lengths, and a table without its keys
DurationTables ==
    LET phases == { MILESTONE_KEYS[i] : i \in 2..Len(MILESTONE_KEYS) }
    IN  { [ k \in phases |-> 1 ],
          [ k \in phases |-> 30 ],
          [ k \in phases |->
              CASE k = "inventory_complete" -> 30
                [] k = "family_joined"      -> 14
                [] k = "claims_open"        -> 1
                [] k = "claims_closed"      -> 21
                [] k = "conflicts_resolved" -> 7
                [] OTHER                    -> 2 ],
          [ k \in {} |-> 0 ] }

\* int(DEFAULT_DURATIONS_DAYS.get(key, 30) * multiplier)
duration(durations, key, urgency) ==
    ((IF key \in DOMAIN durations THEN durations[key] ELSE 30)
         * multiplier(urgency)) \div 10

\* the cursor of the forward branch after the first i keys
RECURSIVE cursor(_, _, _, _)
cursor(today, urgency, durations, i) ==
    IF i <= 1 THEN today
    ELSE cursor(today, urgency, durations, i - 1)
             + duration(durations, MILESTONE_KEYS[i], urgency) * TicksPerDay

\* build_milestone_schedule without a target_end_date: forward from today
forward_milestone_schedule(today, urgency, durations) ==
    [ i \in DOMAIN MILESTONE_KEYS |->
        [ key         |-> MILESTONE_KEYS[i],
          target_date |-> cursor(today, urgency, durations, i),
          status      |-> IF MILESTONE_KEYS[i] = "onboarding_complete"
                          THEN "complete" ELSE "pending" ] ]

\* the days of the deadline taken when target_end_date does not parse
fallback_days == 180

\* build_milestone_schedule, both branches
build_milestone_schedule_from(today, target_end_date, urgency, durations) ==
    IF Truthy(target_end_date)
    THEN build_milestone_schedule(
             today,
             IF IsIsoFormat(target_end_date)
             THEN fromisoformat(target_end_date)
             ELSE today + fallback_days * TicksPerDay)
    ELSE forward_milestone_schedule(today, urgency, durations)

\* save_schedule: the estate's schedule row
save_schedule(target_end_date, urgency) ==
    [ target_end_date     |-> target_end_date,
      urgency             |-> urgency,
      onboarding_complete |-> TRUE ]

----------------------------------------------------------------------------
(* agents/steward.py: the sweep *)

\* the conflicts query of read_estate_state: inventory_items JOIN claims,
\* WHERE, GROUP BY item, HAVING COUNT > 1, with MIN(created_at)
conflict_join(estate_id) ==
    { <<i, c>> \in (DOMAIN inventory_items) \X (DOMAIN claims) :
        /\ claims[c].item_id = i
        /\ inventory_items[i].estate_id = estate_id
        /\ claims[c].status = "pending"
        /\ inventory_items[i].status # "distributed" }

conflict_group(estate_id, i) ==
    { r[2] : r \in { q \in conflict_join(estate_id) : q[1] = i } }

conflict_items(estate_id) ==
    SelectSeq(Indices(inventory_items),
              LAMBDA i : Cardinality(conflict_group(estate_id, i)) > 1)

read_estate_state(estate_id) ==
    [ members   |-> family_members,
      conflicts |->
          LET ids == conflict_items(estate_id)
          IN  [ n \in DOMAIN ids |->
                  [ id |-> ids[n],
                    oldest_claim |->
                        MinOf({ claims[c].created_at :
                                  c \in conflict_group(estate_id, ids[n]) }) ] ],
      pending_suggestions |->
          LET ids == SelectSeq(Indices(item_suggestions),
                               LAMBDA s :
                                 /\ item_suggestions[s].estate_id = estate_id
                                 /\ item_suggestions[s].status = "pending")
          IN  [ n \in DOMAIN ids |->
                  [ id |-> ids[n],
                    created_at |-> item_suggestions[ids[n]].created_at ] ],
      now |-> now ]

check_uninvited_members(alerts, state) ==
    LET step(al, i) ==
            LET m == state.members[i]
                days_waiting == Days(state.now - m.invited_at)
            IN  IF m.status # "invited" THEN al
                ELSE IF days_waiting >= member_invite_critical_days
                THEN write_alert(al, "member_not_joined", "warning", i)
                ELSE IF days_waiting >= member_invite_warning_days
                THEN write_alert(al, "member_not_joined", "info", i)
                ELSE al
    IN  FoldSeq(step, alerts, Indices(state.members))

check_conflicts(alerts, state) ==
    LET step(al, conflict) ==
            LET days_open == Days(state.now - conflict.oldest_claim)
            IN  IF days_open >= conflict_critical_days
                THEN write_alert(al, "conflict_unresolved", "critical", conflict.id)
                ELSE IF days_open >= conflict_warning_days
                THEN write_alert(al, "conflict_unresolved", "warning", conflict.id)
                ELSE al
    IN  FoldSeq(step, alerts, state.conflicts)

\* faulty variant of check_pending_suggestions: the first threshold is strict
check_pending_suggestions_strict(alerts, state) ==
    LET step(al, s) ==
            LET days_waiting == Days(state.now - s.created_at)
            IN  IF days_waiting >= suggestion_review_critical_days
                THEN write_alert(al, "suggestion_unreviewed", "warning", s.id)
                ELSE IF days_waiting > suggestion_review_warning_days
                THEN write_alert(al, "suggestion_unreviewed", "info", s.id)
                ELSE al
    IN  FoldSeq(step, alerts, state.pending_suggestions)

check_pending_suggestions(alerts, state) ==
    LET step(al, s) ==
            LET days_waiting == Days(state.now - s.created_at)
            IN  IF days_waiting >= suggestion_review_critical_days
                THEN write_alert(al, "suggestion_unreviewed", "warning", s.id)
                ELSE IF days_waiting >= suggestion_review_warning_days
                THEN write_alert(al, "suggestion_unreviewed", "info", s.id)
                ELSE al
    IN  FoldSeq(step, alerts, state.pending_suggestions)

\* faulty variant of check_milestones: a milestone due today counts as overdue
check_milestones_due_today(alerts, ms) ==
    LET step(al, key) ==
            LET m == ms[key]
                days_until == Days(m.target_date - now)
            IN  IF m.status = "complete" THEN al
                ELSE IF days_until <= 0
                THEN write_alert(al, "milestone_overdue", "critical", KeyIndex(key))
                ELSE IF days_until <= milestone_warning_days
                THEN write_alert(al, "milestone_upcoming", "info", KeyIndex(key))
                ELSE al
    IN  FoldSeq(step, alerts, get_milestones(ms))

check_milestones(alerts, ms) ==
    LET step(al, key) ==
            LET m == ms[key]
                days_until == Days(m.target_date - now)
            IN  IF m.status = "complete" THEN al
                ELSE IF days_until < 0
                THEN write_alert(al, "milestone_overdue", "critical", KeyIndex(key))
                ELSE IF days_until <= milestone_warning_days
                THEN write_alert(al, "milestone_upcoming", "info", KeyIndex(key))
                ELSE al
    IN  FoldSeq(step, alerts, get_milestones(ms))

\* SELECT created_at FROM audit_log WHERE estate_id=? ORDER BY created_at DESC LIMIT 1
last_activity(estate_id) ==
    LET rows == { n \in DOMAIN audit_log : audit_log[n].estate_id = estate_id }
    IN  IF rows = {} THEN NoTime
        ELSE MaxOf({ audit_log[n].created_at : n \in rows })

\* faulty variant of check_inactivity: the threshold is strict
check_inactivity_strict(alerts, estate_id) ==
    LET last == last_activity(estate_id)
    IN  IF last = NoTime THEN alerts
        ELSE IF Days(now - last) > inactivity_days
        THEN write_alert(alerts, "inactivity", "info", 0)
        ELSE alerts

check_inactivity(alerts, estate_id) ==
    LET last == last_activity(estate_id)
    IN  IF last = NoTime THEN alerts
        ELSE IF Days(now - last) >= inactivity_days
        THEN write_alert(alerts, "inactivity", "info", 0)
        ELSE alerts

\* faulty variant of auto_complete_milestones: an estate without members
\* counts as joined
auto_complete_no_member_check(ms, state) ==
    LET all_joined ==
            \A i \in DOMAIN state.members :
                state.members[i].role # "executor"
                    => state.members[i].status = "joined"
        ms1 == IF /\ "family_joined" \in DOMAIN ms
                  /\ ms["family_joined"].status # "complete"
                  /\ all_joined
               THEN complete_milestone(ms, "family_joined",
                        "All family members joined automatically detected.")
               ELSE ms
        claims_closed == /\ "claims_closed" \in DOMAIN ms
                         /\ ms["claims_closed"].status = "complete"
    IN  IF /\ "conflicts_resolved" \in DOMAIN ms
           /\ ms["conflicts_resolved"].status # "complete"
           /\ state.conflicts = <<>>
           /\ claims_closed
        THEN complete_milestone(ms1, "conflicts_resolved",
                 "No active conflicts detected.")
        ELSE ms1

\* faulty variant of auto_complete_milestones: conflicts_resolved does not
\* wait for claims_closed
auto_complete_no_claims_closed_check(ms, state) ==
    LET all_joined ==
            \A i \in DOMAIN state.members :
                state.members[i].role # "executor"
                    => state.members[i].status = "joined"
        ms1 == IF /\ "family_joined" \in DOMAIN ms
                  /\ ms["family_joined"].status # "complete"
                  /\ all_joined
                  /\ state.members # <<>>
               THEN complete_milestone(ms, "family_joined",
                        "All family members joined automatically detected.")
               ELSE ms
    IN  IF /\ "conflicts_resolved" \in DOMAIN ms
           /\ ms["conflicts_resolved"].status # "complete"
           /\ state.conflicts = <<>>
        THEN complete_milestone(ms1, "conflicts_resolved",
                 "No active conflicts detected.")
        ELSE ms1

auto_complete_milestones(ms, state) ==
    LET all_joined ==
            \A i \in DOMAIN state.members :
                state.members[i].role # "executor"
                    => state.members[i].status = "joined"
        ms1 == IF /\ "family_joined" \in DOMAIN ms
                  /\ ms["family_joined"].status # "complete"
                  /\ all_joined
                  /\ state.members # <<>>
               THEN complete_milestone(ms, "family_joined",
                        "All family members joined automatically detected.")
               ELSE ms
        claims_closed == /\ "claims_closed" \in DOMAIN ms
                         /\ ms["claims_closed"].status = "complete"
    IN  IF /\ "conflicts_resolved" \in DOMAIN ms
           /\ ms["conflicts_resolved"].status # "complete"
           /\ state.conflicts = <<>>
           /\ claims_closed
        THEN complete_milestone(ms1, "conflicts_resolved",
                 "No active conflicts detected.")
        ELSE ms1

SweptTypes ==
    << "member_not_joined", "conflict_unresolved", "suggestion_unreviewed",
       "milestone_overdue", "milestone_upcoming", "inactivity" >>

\* the alert rows after the sweep: the reset, then the five checks in order
run_steward_alerts(estate_id) ==
    LET cleared == FoldSeq(resolve_alert_type, timeline_alerts, SweptTypes)
        state   == read_estate_state(estate_id)
        a1      == check_uninvited_members(cleared, state)
        a2      == check_conflicts(a1, state)
        a3      == check_pending_suggestions(a2, state)
        a4      == check_milestones(a3, estate_milestones)
    IN  check_inactivity(a4, estate_id)

\* the five checks of run_steward, in order, on the alert rows as they are
steward_checks_on(alerts, estate_id) ==
    LET state == read_estate_state(estate_id)
        a1    == check_uninvited_members(alerts, state)
        a2    == check_conflicts(a1, state)
        a3    == check_pending_suggestions(a2, state)
        a4    == check_milestones(a3, estate_milestones)
    IN  check_inactivity(a4, estate_id)

\* the alert rows when the first `done` of the five checks have run
steward_checks_done(estate_id, done) ==
    LET cleared == FoldSeq(resolve_alert_type, timeline_alerts, SweptTypes)
        state   == read_estate_state(estate_id)
        a1      == check_uninvited_members(cleared, state)
        a2      == check_conflicts(a1, state)
        a3      == check_pending_suggestions(a2, state)
        a4      == check_milestones(a3, estate_milestones)
    IN  CASE done = 0 -> cleared
          [] done = 1 -> a1
          [] done = 2 -> a2
          [] done = 3 -> a3
          [] done = 4 -> a4
          [] OTHER    -> check_inactivity(a4, estate_id)

\* the number of checks of run_steward
steward_checks == 5

----------------------------------------------------------------------------
(* agents/crew.py: the conflict detector of build_estate_context *)

\* the conflicts query: inventory_items JOIN claims, WHERE, GROUP BY item,
\* HAVING COUNT > 1, with the claimants' names aggregated
context_join(estate_id) ==
    { <<i, c>> \in (DOMAIN inventory_items) \X (DOMAIN claims) :
        /\ claims[c].item_id = i
        /\ inventory_items[i].estate_id = estate_id
        /\ claims[c].status = "pending"
        /\ inventory_items[i].status # "distributed" }

context_group(estate_id, i) ==
    { r[2] : r \in { q \in context_join(estate_id) : q[1] = i } }

\* faulty variant of build_estate_context_conflicts: HAVING COUNT > 0
build_estate_context_any_claim(estate_id) ==
    LET ids == SelectSeq(Indices(inventory_items),
                   LAMBDA i : Cardinality(context_group(estate_id, i)) > 0)
    IN  [ n \in DOMAIN ids |->
            [ id |-> ids[n],
              claimants |->
                  LET cs == SelectSeq(Indices(claims),
                                LAMBDA c : c \in context_group(estate_id, ids[n]))
                  IN  [ k \in DOMAIN cs |-> claims[cs[k]].member_name ] ] ]

build_estate_context_conflicts(estate_id) ==
    LET ids == SelectSeq(Indices(inventory_items),
                   LAMBDA i : Cardinality(context_group(estate_id, i)) > 1)
    IN  [ n \in DOMAIN ids |->
            [ id |-> ids[n],
              claimants |->
                  LET cs == SelectSeq(Indices(claims),
                                LAMBDA c : c \in context_group(estate_id, ids[n]))
                  IN  [ k \in DOMAIN cs |-> claims[cs[k]].member_name ] ] ]

----------------------------------------------------------------------------
(* db/database.py: intent notes *)

Visibilities == {"private", "mediator", "morris", "public"}

\* what an author may write in a note
Contents == {"Mother promised it to me", "I cannot afford to buy it"}

\* INSERT INTO audit_log with the summary and the metadata spelled out; a
\* summary is the sequence of the parts its f-string is built from
write_audit_summary(log, estate_id, actor_name, action_type, item_id, public_summary, metadata) ==
    Append(log, [ estate_id      |-> estate_id,
                  item_id        |-> item_id,
                  action_type    |-> action_type,
                  actor_name     |-> actor_name,
                  public_summary |-> public_summary,
                  metadata       |-> metadata,
                  created_at     |-> now ])

\* add_intent_note: the INSERT of the SQLite branch names 8 columns and
\* gives 7 values, so the statement is refused and the call raises
add_intent_note_raises ==
    IF USE_POSTGRES THEN "none" ELSE "sqlite3.OperationalError"

\* add_intent_note: the row the Postgres branch inserts
add_intent_note(notes, item_id, estate_id, member_id, member_name, content) ==
    Append(notes, [ item_id     |-> item_id,
                    estate_id   |-> estate_id,
                    member_id   |-> member_id,
                    member_name |-> member_name,
                    content     |-> content,
                    visibility  |-> "private" ])

\* faulty variant of add_intent_note_audit: the summary quotes the note
add_intent_note_audit_with_content(log, item_id, estate_id, member_id, member_name, content) ==
    write_audit_summary(log, estate_id, member_name, "note_added", item_id,
                        << member_name, "added a private note:", content >>,
                        << >>)

\* add_intent_note: the audit entry written after the insert
add_intent_note_audit(log, item_id, estate_id, member_id, member_name, content) ==
    write_audit_summary(log, estate_id, member_name, "note_added", item_id,
                        << member_name, "added a private note." >>, << >>)

labels(visibility) ==
    CASE visibility = "private"  -> "made their note private"
      [] visibility = "mediator" -> "shared their note with the Mediator"
      [] visibility = "morris"   -> "shared their note with Morris"
      [] visibility = "public"   -> "shared their note publicly"

\* faulty variant of set_note_visibility_raises: the author is not checked
set_note_visibility_raises_any_member(notes, note_id, member_id, new_visibility) ==
    IF new_visibility \notin Visibilities THEN "ValueError"
    ELSE IF note_id \notin DOMAIN notes THEN "PermissionError"
    ELSE "none"

\* set_note_visibility: the exception raised, if any
set_note_visibility_raises(notes, note_id, member_id, new_visibility) ==
    IF new_visibility \notin Visibilities THEN "ValueError"
    ELSE IF note_id \notin DOMAIN notes THEN "PermissionError"
    ELSE IF notes[note_id].member_id # member_id THEN "PermissionError"
    ELSE "none"

\* UPDATE intent_notes SET visibility=? WHERE id=?
set_note_visibility(notes, note_id, new_visibility) ==
    [ n \in DOMAIN notes |->
        IF n = note_id THEN [ notes[n] EXCEPT !.visibility = new_visibility ]
        ELSE notes[n] ]

\* faulty variant of set_note_visibility_audit: the metadata carries the
\* note's text
set_note_visibility_audit_with_content(log, note_id, member_name, estate_id, item_id, new_visibility) ==
    write_audit_summary(log, estate_id, member_name, "visibility_changed",
                        item_id,
                        << member_name, labels(new_visibility) >>,
                        [ note_id        |-> note_id,
                          new_visibility |-> new_visibility,
                          content        |-> intent_notes[note_id].content ])

\* set_note_visibility: the audit entry written after the update
set_note_visibility_audit(log, note_id, member_name, estate_id, item_id, new_visibility) ==
    write_audit_summary(log, estate_id, member_name, "visibility_changed",
                        item_id,
                        << member_name, labels(new_visibility) >>,
                        [ note_id |-> note_id, new_visibility |-> new_visibility ])

\* faulty variant of get_intent_notes: either role flag opens the notes
\* shared with Morris
get_intent_notes_any_role(notes, item_id, member_id, is_morris, is_mediator) ==
    LET can_read(n) ==
            IF notes[n].member_id = member_id THEN TRUE
            ELSE IF notes[n].visibility = "public" THEN TRUE
            ELSE IF (is_morris \/ is_mediator) /\ notes[n].visibility = "morris"
                 THEN TRUE
            ELSE is_mediator /\ notes[n].visibility = "mediator"
        ids == SelectSeq(Indices(notes),
                         LAMBDA n : notes[n].item_id = item_id /\ can_read(n))
    IN  [ k \in DOMAIN ids |->
            [ id          |-> ids[k],
              member_id   |-> notes[ids[k]].member_id,
              member_name |-> notes[ids[k]].member_name,
              content     |-> notes[ids[k]].content,
              visibility  |-> notes[ids[k]].visibility ] ]

\* get_intent_notes: the notes of the item the viewer may read, oldest first
get_intent_notes(notes, item_id, member_id, is_morris, is_mediator) ==
    LET can_read(n) ==
            IF notes[n].member_id = member_id THEN TRUE
            ELSE IF notes[n].visibility = "public" THEN TRUE
            ELSE IF is_morris /\ notes[n].visibility = "morris" THEN TRUE
            ELSE is_mediator /\ notes[n].visibility = "mediator"
        ids == SelectSeq(Indices(notes),
                         LAMBDA n : notes[n].item_id = item_id /\ can_read(n))
    IN  [ k \in DOMAIN ids |->
            [ id          |-> ids[k],
              member_id   |-> notes[ids[k]].member_id,
              member_name |-> notes[ids[k]].member_name,
              content     |-> notes[ids[k]].content,
              visibility  |-> notes[ids[k]].visibility ] ]

----------------------------------------------------------------------------
(* The operations *)

EndDays == {3, 10}
LongEndDays == {180}

\* the milestones the executor completes by hand
ManualKeys == {"family_joined", "claims_closed", "conflicts_resolved"}

Init ==
    /\ now = 0
    /\ clockSteps = 0
    /\ family_members = <<>>
    /\ inventory_items = <<>>
    /\ claims = <<>>
    /\ distributions = <<>>
    /\ item_suggestions = <<>>
    /\ estate_milestones = <<>>
    /\ timeline_alerts = <<>>
    /\ audit_log = <<>>
    /\ lastOp = "other"
    /\ intent_notes = <<>>
    /\ USE_POSTGRES \in BOOLEAN
    /\ raised = "none"
    /\ call = << >>
    /\ conversation_state = [ state          |-> "idle",
                              last_message   |-> None,
                              search_results |-> None ]
    /\ estate_schedule = None
    /\ response = "none"
    /\ memories = << >>
    /\ estate_status = "active"
    /\ sweep_pc = [ sweeper \in Sweepers |-> "idle" ]
    /\ updates = << >>
    /\ arrived = << >>
    /\ last_update_id = NoUpdate
    /\ handled = << >>
    /\ notified_suggestion_ids = {}
    /\ notifications = << >>

\* Time passes: half a day, or just short of a threshold of `days`
ClockJumps(days) == {1} \cup { d * TicksPerDay - 1 : d \in days }

AllThresholds ==
    { suggestion_review_warning_days, suggestion_review_critical_days,
      conflict_warning_days, conflict_critical_days,
      member_invite_warning_days, member_invite_critical_days,
      milestone_warning_days, inactivity_days }

AdvanceClock(d) ==
    /\ clockSteps < MaxClockSteps
    /\ now' = now + d
    /\ clockSteps' = clockSteps + 1
    /\ lastOp' = "other"
    /\ UNCHANGED process_vars
    /\ raised' = "none"
    /\ call' = << >>
    /\ UNCHANGED session_vars
    /\ UNCHANGED <<intent_notes, USE_POSTGRES>>
    /\ UNCHANGED <<family_members, inventory_items, claims, distributions,
                   item_suggestions, estate_milestones, timeline_alerts,
                   audit_log>>

\* host.py add_family_member_tool -> add_family_member
AddFamilyMember(role) ==
    /\ Len(family_members) < MaxMembers
    /\ family_members' = add_family_member(family_members, role)
    /\ lastOp' = "other"
    /\ UNCHANGED process_vars
    /\ raised' = "none"
    /\ call' = << >>
    /\ UNCHANGED session_vars
    /\ UNCHANGED <<intent_notes, USE_POSTGRES>>
    /\ UNCHANGED <<now, clockSteps, inventory_items, claims, distributions,
                   item_suggestions, estate_milestones, timeline_alerts,
                   audit_log>>

\* a join code is redeemed
MarkMemberJoined(join_code) ==
    /\ join_code \in DOMAIN family_members
    /\ family_members' = mark_member_joined(family_members, join_code)
    /\ lastOp' = "other"
    /\ UNCHANGED process_vars
    /\ raised' = "none"
    /\ call' = << >>
    /\ UNCHANGED session_vars
    /\ UNCHANGED <<intent_notes, USE_POSTGRES>>
    /\ UNCHANGED <<now, clockSteps, inventory_items, claims, distributions,
                   item_suggestions, estate_milestones, timeline_alerts,
                   audit_log>>

\* tabulator.py add_item_tool
AddItemTool(estate_id) ==
    /\ Len(inventory_items) < MaxItems
    /\ inventory_items' = add_item(inventory_items, estate_id)
    /\ audit_log' = write_audit(audit_log, estate_id, "Morris", "item_added",
                                Len(inventory_items) + 1)
    /\ lastOp' = "other"
    /\ UNCHANGED process_vars
    /\ raised' = "none"
    /\ call' = << >>
    /\ UNCHANGED session_vars
    /\ UNCHANGED <<intent_notes, USE_POSTGRES>>
    /\ UNCHANGED <<now, clockSteps, family_members, claims, distributions,
                   item_suggestions, estate_milestones, timeline_alerts>>

\* tabulator.py record_claim_tool, called with the item's own estate
RecordClaimTool(item_id, member_id) ==
    /\ Len(claims) < MaxClaims
    /\ item_id \in DOMAIN inventory_items
    /\ LET estate_id   == inventory_items[item_id].estate_id
           member_name == MemberNames[member_id]
           existing    == get_item_claims(item_id)
           log1        == write_audit(audit_log, estate_id, member_name,
                                      "claim_recorded", item_id)
       IN  /\ claims' = add_claim(claims, item_id, estate_id, member_id, member_name)
           /\ audit_log' = IF existing # <<>>
                           THEN write_audit(log1, estate_id, "Tabulator",
                                            "conflict_flagged", item_id)
                           ELSE log1
    /\ lastOp' = "other"
    /\ UNCHANGED process_vars
    /\ raised' = "none"
    /\ call' = << >>
    /\ UNCHANGED session_vars
    /\ UNCHANGED <<intent_notes, USE_POSTGRES>>
    /\ UNCHANGED <<now, clockSteps, family_members, inventory_items,
                   distributions, item_suggestions, estate_milestones,
                   timeline_alerts>>

\* tabulator.py resolve_tool, called with the item's own estate
ResolveTool(item_id, winner_member_id) ==
    /\ Cardinality({ n \in DOMAIN audit_log :
                       audit_log[n].action_type = "distribution_recorded" })
           < MaxDistributions
    /\ item_id \in DOMAIN inventory_items
    /\ inventory_items' = resolve_claim_items(item_id)
    /\ claims' = resolve_claim_claims(item_id)
    /\ distributions' = resolve_claim_distributions(item_id, winner_member_id,
                                                    MemberNames[winner_member_id])
    /\ audit_log' = write_audit(audit_log, inventory_items[item_id].estate_id,
                                "Morris", "distribution_recorded", item_id)
    /\ lastOp' = "other"
    /\ UNCHANGED process_vars
    /\ raised' = "none"
    /\ call' = << >>
    /\ UNCHANGED session_vars
    /\ UNCHANGED <<intent_notes, USE_POSTGRES>>
    /\ UNCHANGED <<now, clockSteps, family_members, item_suggestions,
                   estate_milestones, timeline_alerts>>

\* a family member suggests an item
AddSuggestion(estate_id) ==
    /\ Len(item_suggestions) < MaxSuggestions
    /\ item_suggestions' = add_suggestion(item_suggestions, estate_id)
    /\ lastOp' = "other"
    /\ UNCHANGED process_vars
    /\ raised' = "none"
    /\ call' = << >>
    /\ UNCHANGED session_vars
    /\ UNCHANGED <<intent_notes, USE_POSTGRES>>
    /\ UNCHANGED <<now, clockSteps, family_members, inventory_items, claims,
                   distributions, estate_milestones, timeline_alerts, audit_log>>

\* database.py approve_suggestion
ApproveSuggestion(suggestion_id) ==
    /\ suggestion_id \in DOMAIN item_suggestions
    /\ Len(inventory_items) < MaxItems
    /\ LET estate_id == item_suggestions[suggestion_id].estate_id
           item_id   == Len(inventory_items) + 1
       IN  /\ item_suggestions' =
                  review_suggestion(item_suggestions, suggestion_id, "approved")
           /\ inventory_items' = add_item(inventory_items, estate_id)
           /\ audit_log' =
                  write_audit(
                      write_audit(audit_log, estate_id, MemberNames[1],
                                  "item_suggested", item_id),
                      estate_id, "Morris", "item_approved", item_id)
    /\ lastOp' = "other"
    /\ UNCHANGED process_vars
    /\ raised' = "none"
    /\ call' = << >>
    /\ UNCHANGED session_vars
    /\ UNCHANGED <<intent_notes, USE_POSTGRES>>
    /\ UNCHANGED <<now, clockSteps, family_members, claims, distributions,
                   estate_milestones, timeline_alerts>>

\* database.py reject_suggestion
RejectSuggestion(suggestion_id) ==
    /\ suggestion_id \in DOMAIN item_suggestions
    /\ Cardinality({ n \in DOMAIN audit_log :
                       audit_log[n].action_type = "suggestion_rejected" })
           < MaxRejects
    /\ item_suggestions' =
           review_suggestion(item_suggestions, suggestion_id, "rejected")
    /\ audit_log' = write_audit(audit_log,
                                item_suggestions[suggestion_id].estate_id,
                                "Morris", "suggestion_rejected", 0)
    /\ lastOp' = "other"
    /\ UNCHANGED process_vars
    /\ raised' = "none"
    /\ call' = << >>
    /\ UNCHANGED session_vars
    /\ UNCHANGED <<intent_notes, USE_POSTGRES>>
    /\ UNCHANGED <<now, clockSteps, family_members, inventory_items, claims,
                   distributions, estate_milestones, timeline_alerts>>

\* onboarding.py _finalize_schedule, lines 340-347, with a target end date
FinalizeSchedule(end_day) ==
    /\ estate_milestones' =
           set_milestones(build_milestone_schedule(now, end_day * TicksPerDay))
    /\ lastOp' = "other"
    /\ UNCHANGED process_vars
    /\ raised' = "none"
    /\ call' = << >>
    /\ UNCHANGED session_vars
    /\ UNCHANGED <<intent_notes, USE_POSTGRES>>
    /\ UNCHANGED <<now, clockSteps, family_members, inventory_items, claims,
                   distributions, item_suggestions, timeline_alerts, audit_log>>

\* the executor marks a milestone complete
CompleteMilestone(key) ==
    /\ key \in DOMAIN estate_milestones
    /\ estate_milestones[key].status # "complete"
    /\ estate_milestones' = complete_milestone(estate_milestones, key, "")
    /\ lastOp' = "other"
    /\ UNCHANGED process_vars
    /\ raised' = "none"
    /\ call' = << >>
    /\ UNCHANGED session_vars
    /\ UNCHANGED <<intent_notes, USE_POSTGRES>>
    /\ UNCHANGED <<now, clockSteps, family_members, inventory_items, claims,
                   distributions, item_suggestions, timeline_alerts, audit_log>>

\* database.py set_state: the single row is overwritten, all three columns
set_state(state, last_message, search_results) ==
    [ state          |-> state,
      last_message   |-> last_message,
      search_results |-> search_results ]

\* What the extraction request of _finalize_schedule comes back with: the
\* request itself raises, the text is not JSON, the text is JSON but not an
\* object, or the text is a JSON object with these two fields
ExtractionRaises == [ kind |-> "raises" ]
ExtractionUnparsable == [ kind |-> "unparsable" ]
ExtractionNotADict == [ kind |-> "nondict" ]
Extracted(target_end_date, urgency) ==
    [ kind |-> "dict", target_end_date |-> target_end_date,
      urgency |-> urgency ]

\* _finalize_schedule lines 315-329: the request is outside the try, the
\* json.loads inside it; extracted.get on a value that is no dict raises
finalize_extraction_raises(extraction) ==
    extraction.kind \in {"raises", "nondict"}

\* _finalize_schedule lines 321-329: the extracted fields, or the defaults
\* when json.loads raised
extracted_fields(extraction) ==
    IF extraction.kind = "dict"
    THEN [ target_end_date |-> extraction.target_end_date,
           urgency         |-> extraction.urgency ]
    ELSE [ target_end_date |-> None, urgency |-> "normal" ]

\* _finalize_schedule raises: at the extraction, or when the crew that sends
\* the confirmation fails
finalize_schedule_raises(extraction, crew_ok) ==
    finalize_extraction_raises(extraction) \/ ~crew_ok

\* _finalize_schedule: extraction, save_schedule, build_milestone_schedule,
\* set_milestones, the confirmation by the crew, set_state("idle").  An
\* exception ends it where it is raised.
finalize_schedule(extraction, crew_ok, durations) ==
    LET x == extracted_fields(extraction)
    IN  IF finalize_extraction_raises(extraction)
        THEN UNCHANGED <<estate_schedule, estate_milestones,
                         conversation_state>>
        ELSE /\ estate_schedule' = save_schedule(x.target_end_date, x.urgency)
             /\ estate_milestones' =
                    set_milestones(build_milestone_schedule_from(
                        now, x.target_end_date, x.urgency, durations))
             /\ conversation_state' =
                    IF crew_ok THEN set_state("idle", None, None)
                    ELSE conversation_state

\* onboarding.py _finalize_schedule, called with the executor's answers
FinalizeScheduleFrom(extraction, crew_ok, durations) ==
    /\ finalize_schedule(extraction, crew_ok, durations)
    /\ raised' = IF finalize_schedule_raises(extraction, crew_ok)
                 THEN "Exception" ELSE "none"
    /\ call' = << "_finalize_schedule", extraction, crew_ok, durations >>
    /\ response' = IF finalize_schedule_raises(extraction, crew_ok)
                   THEN response ELSE "confirmation"
    /\ lastOp' = "other"
    /\ UNCHANGED process_vars
    /\ UNCHANGED <<intent_notes, USE_POSTGRES, memories>>
    /\ UNCHANGED <<now, clockSteps, family_members, inventory_items, claims,
                   distributions, item_suggestions, timeline_alerts, audit_log>>

\* the states in which webhook.py routes a message to handle_onboarding_reply
OnboardingStates ==
    {"onboarding_q1", "onboarding_q2", "onboarding_q3", "onboarding_q4"}

\* handle_onboarding_reply lines 196-200: json.loads of the stored payload;
\* None, and a text that is no JSON, give the empty dict
json_loads_answers(search_results) ==
    IF search_results.kind = "json" THEN search_results.dict ELSE << >>

\* handle_onboarding_reply: the key under which each state stores its answer
answer_key(state) ==
    CASE state = "onboarding_q1" -> "q1_deadline"
      [] state = "onboarding_q2" -> "q2_urgency"
      [] state = "onboarding_q3" -> "q3_accommodation"
      [] state = "onboarding_q4" -> "q4_other"

\* handle_onboarding_reply: next_state of q1..q3
next_state(state) ==
    CASE state = "onboarding_q1" -> "onboarding_q2"
      [] state = "onboarding_q2" -> "onboarding_q3"
      [] state = "onboarding_q3" -> "onboarding_q4"

\* handle_onboarding_reply: answers[key] = user_message on the loaded answers
onboarding_answers(row, user_message) ==
    LET answers == json_loads_answers(row.search_results)
        key     == answer_key(row.state)
    IN  [ k \in DOMAIN answers \cup {key} |->
            IF k = key THEN user_message ELSE answers[k] ]

\* a faulty write_memory: nothing is inserted
write_memory_dropping(mem, event_type, summary) == mem

\* tools/memory.py write_memory
write_memory(mem, event_type, summary) ==
    Append(mem, [ event_type |-> event_type, summary |-> summary ])

\* a faulty hand-over: the stored message in place of the stored option set
confirmation_arguments_stale(row, text) == << text, row.last_message >>

\* main.py handle_message lines 42-43: what run_event_confirmation is given
confirmation_arguments(row, text) == << text, row.search_results >>

\* webhook.py handle_message: an onboarding state goes to
\* handle_onboarding_reply, whose exceptions are caught and answered with an
\* apology; any other state goes to run_executor_reply
handle_message(text, crew_ok, extraction, durations) ==
    LET row   == conversation_state
        state == row.state
    IN  CASE state = "onboarding_q4" ->
                 /\ finalize_schedule(extraction, crew_ok, durations)
                 /\ response' =
                        IF finalize_schedule_raises(extraction, crew_ok)
                        THEN "error" ELSE "confirmation"
                 /\ UNCHANGED memories
          [] state \in OnboardingStates \ {"onboarding_q4"} ->
                 /\ conversation_state' =
                        IF crew_ok
                        THEN set_state(next_state(state),
                                       Text(next_state(state)),
                                       json_dumps(onboarding_answers(row, text)))
                        ELSE conversation_state
                 /\ response' = IF crew_ok THEN "question" ELSE "error"
                 /\ UNCHANGED <<estate_schedule, estate_milestones, memories>>
          [] OTHER ->
                 /\ memories' =
                        IF crew_ok
                        THEN write_memory(memories, "note", text)
                        ELSE memories
                 /\ response' = IF crew_ok THEN "reply" ELSE "error"
                 /\ UNCHANGED <<estate_schedule, estate_milestones,
                                conversation_state>>

\* the arguments of the call, as the history of the message keeps them
handle_message_call(text, crew_ok, extraction, durations) ==
    IF conversation_state.state = "onboarding_q4"
    THEN << "webhook.handle_message", text, crew_ok, extraction, durations >>
    ELSE << "webhook.handle_message", text, crew_ok >>

\* the memories table has room for the note the message may add
MemoryRoom(crew_ok) ==
    (conversation_state.state \notin OnboardingStates /\ crew_ok) =>
        Len(memories) < MaxMemories

WebhookMessage(text, crew_ok, extraction, durations) ==
    /\ MemoryRoom(crew_ok)
    /\ call' = handle_message_call(text, crew_ok, extraction, durations)
    /\ raised' = "none"
    /\ lastOp' = "other"
    /\ UNCHANGED process_vars
    /\ handle_message(text, crew_ok, extraction, durations)
    /\ UNCHANGED <<intent_notes, USE_POSTGRES>>
    /\ UNCHANGED <<now, clockSteps, family_members, inventory_items,
                   claims, distributions, item_suggestions,
                   timeline_alerts, audit_log>>

\* tools/telegram.py: the updates Telegram holds for the bot, oldest first,
\* each with its update_id and the text of its message
get_updates == updates

\* get_latest_message: the last of the updates returned, or nothing
get_latest_message ==
    IF get_updates = << >> THEN None ELSE get_updates[Len(get_updates)]

\* clear_updates: the request with offset up_to_update_id + 1 confirms every
\* update up to the id; a request that Telegram refuses confirms nothing
clear_updates(up_to_update_id, outcome) ==
    IF outcome = "ok"
    THEN SelectSeq(updates, LAMBDA u : u.update_id > up_to_update_id)
    ELSE updates

\* what the request of clear_updates may come to: answered, refused by
\* Telegram, or raising in requests.get
ClearOutcomes == {"ok", "refused", "raises"}

\* text.startswith("/")
Commands == {"/start"}
startswith_slash(text) == text.text \in Commands

\* a message of the executor arrives at Telegram
Arrive(text) ==
    /\ Len(arrived) < MaxUpdates
    /\ arrived' = Append(arrived, text)
    /\ updates' = Append(updates, [ kind      |-> "update",
                                    update_id |-> Len(arrived) + 1,
                                    text      |-> text ])
    /\ call' = << "arrive", text >>
    /\ raised' = "none"
    /\ lastOp' = "other"
    /\ UNCHANGED <<estate_status, sweep_pc, last_update_id, handled,
                   notified_suggestion_ids, notifications>>
    /\ UNCHANGED session_vars
    /\ UNCHANGED <<intent_notes, USE_POSTGRES>>
    /\ UNCHANGED <<now, clockSteps, family_members, inventory_items, claims,
                   distributions, item_suggestions, estate_milestones,
                   timeline_alerts, audit_log>>

\* webhook.py poll, one turn of the listener's loop in which an update is
\* found that is not the one handled last; an exception of clear_updates
\* leaves poll before last_update_id is assigned and is caught by the loop
Poll(outcome, crew_ok, extraction, durations) ==
    LET update    == get_latest_message
        update_id == update.update_id
        text      == update.text
        routed    == ~startswith_slash(text) /\ Truthy(text)
    IN  /\ update # None
        /\ update_id # last_update_id
        /\ Len(handled) < MaxHandled
        /\ routed => MemoryRoom(crew_ok)
        /\ IF routed
           THEN /\ handle_message(text, crew_ok, extraction, durations)
                /\ handled' = Append(handled, update_id)
                /\ call' = handle_message_call(text, crew_ok, extraction,
                                               durations)
           ELSE /\ UNCHANGED session_vars
                /\ UNCHANGED <<estate_milestones, handled>>
                /\ call' = << "poll", update_id >>
        /\ updates' = clear_updates(update_id, outcome)
        /\ last_update_id' =
               IF outcome = "raises" THEN last_update_id ELSE update_id
        /\ raised' = "none"
        /\ lastOp' = "other"
        /\ UNCHANGED <<estate_status, sweep_pc, arrived,
                       notified_suggestion_ids, notifications>>
        /\ UNCHANGED <<intent_notes, USE_POSTGRES>>
        /\ UNCHANGED <<now, clockSteps, family_members, inventory_items,
                       claims, distributions, item_suggestions,
                       timeline_alerts, audit_log>>

\* main.py handle_message: the listener of the daily event cycle, with
\* crew_old.py run_event_search and run_event_confirmation
MainMessage(text, crew_ok, result) ==
    LET row   == conversation_state
        state == row.state
    IN  /\ state = "waiting_for_preference" => Len(memories) < MaxMemories
        /\ lastOp' = "other"
        /\ UNCHANGED process_vars
        /\ CASE state = "waiting_for_preference" ->
                   /\ call' = << "main.handle_message", text, crew_ok, result >>
                   /\ memories' = write_memory(memories, "preference", text)
                   /\ conversation_state' =
                          IF crew_ok
                          THEN set_state("waiting_for_selection", text, result)
                          ELSE conversation_state
                   /\ response' = IF crew_ok THEN "options" ELSE response
                   /\ raised' = IF crew_ok THEN "none" ELSE "Exception"
             [] state = "waiting_for_selection" ->
                   /\ call' = << "main.handle_message", text, crew_ok,
                                 confirmation_arguments(row, text) >>
                   /\ conversation_state' =
                          IF crew_ok
                          THEN set_state("confirmed", None, None)
                          ELSE conversation_state
                   /\ response' = IF crew_ok THEN "confirmation" ELSE response
                   /\ raised' = IF crew_ok THEN "none" ELSE "Exception"
                   /\ UNCHANGED memories
             [] OTHER ->
                   /\ call' = << "main.handle_message", text >>
                   /\ response' = "fallback"
                   /\ raised' = "none"
                   /\ UNCHANGED <<conversation_state, memories>>
        /\ UNCHANGED <<estate_schedule, estate_milestones>>
        /\ UNCHANGED <<intent_notes, USE_POSTGRES>>
        /\ UNCHANGED <<now, clockSteps, family_members, inventory_items,
                       claims, distributions, item_suggestions,
                       timeline_alerts, audit_log>>

\* crew_old.py run_morning_greeting: the trigger that opens the day
MorningGreeting(crew_ok) ==
    /\ call' = << "run_morning_greeting", crew_ok >>
    /\ conversation_state' =
           IF crew_ok THEN set_state("waiting_for_preference", None, None)
           ELSE conversation_state
    /\ response' = IF crew_ok THEN "greeting" ELSE response
    /\ raised' = IF crew_ok THEN "none" ELSE "Exception"
    /\ lastOp' = "other"
    /\ UNCHANGED process_vars
    /\ UNCHANGED <<estate_schedule, estate_milestones, memories>>
    /\ UNCHANGED <<intent_notes, USE_POSTGRES>>
    /\ UNCHANGED <<now, clockSteps, family_members, inventory_items, claims,
                   distributions, item_suggestions, timeline_alerts, audit_log>>

\* scheduler.py morning_job -> crew.py run_morning_briefing: the sweep, the
\* briefing by the crew, set_state("idle"); the job catches what is raised
MorningJob(crew_ok) ==
    /\ call' = << "morning_job", crew_ok >>
    /\ timeline_alerts' = run_steward_alerts(HomeEstate)
    /\ estate_milestones' =
           auto_complete_milestones(estate_milestones,
                                    read_estate_state(HomeEstate))
    /\ conversation_state' =
           IF crew_ok THEN set_state("idle", None, None)
           ELSE conversation_state
    /\ response' = IF crew_ok THEN "briefing" ELSE response
    /\ raised' = "none"
    /\ lastOp' = "run_steward"
    /\ UNCHANGED process_vars
    /\ UNCHANGED <<estate_schedule, memories>>
    /\ UNCHANGED <<intent_notes, USE_POSTGRES>>
    /\ UNCHANGED <<now, clockSteps, family_members, inventory_items, claims,
                   distributions, item_suggestions, audit_log>>

\* scheduler.py onboarding_check_job, run when the scheduler starts: without
\* a schedule whose onboarding is complete, start_onboarding asks the first
\* question and sets onboarding_q1; the job catches what is raised
OnboardingCheckJob(crew_ok) ==
    LET needed == IF estate_schedule = None THEN TRUE
                  ELSE ~estate_schedule.onboarding_complete
    IN  /\ call' = << "onboarding_check_job", crew_ok >>
        /\ conversation_state' =
               IF needed /\ crew_ok
               THEN set_state("onboarding_q1",
                              Text("awaiting_deadline_answer"), None)
               ELSE conversation_state
        /\ response' = IF needed /\ crew_ok THEN "question" ELSE response
        /\ raised' = "none"
        /\ lastOp' = "other"
        /\ UNCHANGED process_vars
        /\ UNCHANGED <<estate_schedule, estate_milestones, memories>>
        /\ UNCHANGED <<intent_notes, USE_POSTGRES>>
        /\ UNCHANGED <<now, clockSteps, family_members, inventory_items,
                       claims, distributions, item_suggestions,
                       timeline_alerts, audit_log>>

\* database.py add_intent_note, for an item of the home estate
AddIntentNote(item_id, member_id, content) ==
    /\ Len(intent_notes) < MaxNotes
    /\ raised' = add_intent_note_raises
    /\ call' = << "add_intent_note", item_id, member_id, content >>
    /\ intent_notes' =
           IF add_intent_note_raises = "none"
           THEN add_intent_note(intent_notes, item_id, HomeEstate, member_id,
                                MemberNames[member_id], content)
           ELSE intent_notes
    /\ audit_log' =
           IF add_intent_note_raises = "none"
           THEN add_intent_note_audit(audit_log, item_id, HomeEstate, member_id,
                                      MemberNames[member_id], content)
           ELSE audit_log
    /\ lastOp' = "other"
    /\ UNCHANGED process_vars
    /\ UNCHANGED <<now, clockSteps, family_members, inventory_items, claims,
                   distributions, item_suggestions, estate_milestones,
                   timeline_alerts, USE_POSTGRES>>
    /\ UNCHANGED session_vars

\* the item and the estate a caller of set_note_visibility names: those of
\* the note, or the first item of the home estate when there is no such note
NoteItem(note_id) ==
    IF note_id \in DOMAIN intent_notes THEN intent_notes[note_id].item_id ELSE 1

NoteEstate(note_id) ==
    IF note_id \in DOMAIN intent_notes THEN intent_notes[note_id].estate_id
    ELSE HomeEstate

\* database.py set_note_visibility
SetNoteVisibility(note_id, member_id, new_visibility) ==
    /\ Cardinality({ n \in DOMAIN audit_log :
                       audit_log[n].action_type = "visibility_changed" })
           < MaxVisibilityChanges
    /\ LET error == set_note_visibility_raises(intent_notes, note_id, member_id,
                                               new_visibility)
       IN  /\ raised' = error
           /\ call' = << "set_note_visibility", note_id, member_id,
                         new_visibility >>
           /\ intent_notes' =
                  IF error = "none"
                  THEN set_note_visibility(intent_notes, note_id, new_visibility)
                  ELSE intent_notes
           /\ audit_log' =
                  IF error = "none"
                  THEN set_note_visibility_audit(audit_log, note_id,
                                                 MemberNames[member_id],
                                                 NoteEstate(note_id),
                                                 NoteItem(note_id), new_visibility)
                  ELSE audit_log
    /\ lastOp' = "other"
    /\ UNCHANGED process_vars
    /\ UNCHANGED <<now, clockSteps, family_members, inventory_items, claims,
                   distributions, item_suggestions, estate_milestones,
                   timeline_alerts, USE_POSTGRES>>
    /\ UNCHANGED session_vars

\* the items notes are written about
NoteItems == {1, 2}

\* the visibilities a caller may pass, one of them invalid
VisibilityInputs == Visibilities \cup {"family"}

\* steward.py run_steward for the home estate
RunSteward ==
    /\ timeline_alerts' = run_steward_alerts(HomeEstate)
    /\ estate_milestones' =
           auto_complete_milestones(estate_milestones,
                                    read_estate_state(HomeEstate))
    /\ lastOp' = "run_steward"
    /\ UNCHANGED process_vars
    /\ raised' = "none"
    /\ call' = << >>
    /\ UNCHANGED session_vars
    /\ UNCHANGED <<intent_notes, USE_POSTGRES>>
    /\ UNCHANGED <<now, clockSteps, family_members, inventory_items, claims,
                   distributions, item_suggestions, audit_log>>

\* steward.py run_steward in which one check raises at an alert it writes,
\* after `written` of its alerts: the six types are reset, the checks before
\* it have run, nothing is caught, and the checks after it and
\* auto_complete_milestones are not reached
RunStewardRaising(check, written) ==
    LET before == steward_checks_done(HomeEstate, check - 1)
        after  == steward_checks_done(HomeEstate, check)
    IN  /\ check \in 1..steward_checks
        /\ written \in 0..(Len(after) - Len(before) - 1)
        /\ timeline_alerts' = SubSeq(after, 1, Len(before) + written)
        /\ lastOp' = "run_steward_raised"
        /\ UNCHANGED process_vars
        /\ raised' = "Exception"
        /\ call' = << "run_steward", check, written >>
        /\ UNCHANGED session_vars
        /\ UNCHANGED <<intent_notes, USE_POSTGRES>>
        /\ UNCHANGED <<now, clockSteps, family_members, inventory_items,
                       claims, distributions, item_suggestions,
                       estate_milestones, audit_log>>

\* db/database.py get_pending_suggestions: the ids of the pending suggestions
\* of the estate, ORDER BY created_at (the order of the ids)
get_pending_suggestions(estate_id) ==
    SelectSeq(Indices(item_suggestions),
              LAMBDA s : /\ item_suggestions[s].estate_id = estate_id
                         /\ item_suggestions[s].status = "pending")

\* a faulty selection: the notified set is not consulted
to_notify_again(pending, notified) == pending

\* scheduler.py suggestion_check_job: the suggestions of the tick that the
\* loop calls run_suggestion_notification for, `sid not in
\* _notified_suggestion_ids`
to_notify(pending, notified) ==
    SelectSeq(pending, LAMBDA sid : sid \notin notified)

\* an attempt of run_suggestion_notification for a suggestion, returned or
\* raised
Attempt(sid, outcome) ==
    [ kind |-> "attempt", sid |-> sid, outcome |-> outcome ]

\* scheduler.py suggestion_check_job, one tick: the loop over the pending
\* suggestions in which the first `returned` notifications return and, when
\* `raises`, the next one raises; the id is added to the set after the call
\* returned, the exception ends the loop and is caught and printed by the
\* job
SuggestionCheckJob(returned, raises) ==
    LET pending == get_pending_suggestions(HomeEstate)
        todo    == to_notify(pending, notified_suggestion_ids)
        sent    == SubSeq(todo, 1, returned)
        done    == [ n \in DOMAIN sent |-> Attempt(sent[n], "returned") ]
        tried   == IF raises
                   THEN Append(done, Attempt(todo[returned + 1], "raised"))
                   ELSE done
    IN  /\ IF raises THEN returned < Len(todo) ELSE returned = Len(todo)
        /\ Len(notifications) + Len(tried)
               <= IF raises THEN MaxAttempts
                  ELSE MaxAttempts + MaxSuggestions
        /\ notifications' = notifications \o tried
        /\ notified_suggestion_ids' =
               notified_suggestion_ids \cup { sent[n] : n \in DOMAIN sent }
        /\ call' = << "suggestion_check_job", returned, raises >>
        /\ raised' = "none"
        /\ lastOp' = "other"
        /\ UNCHANGED <<estate_status, sweep_pc, updates, arrived,
                       last_update_id, handled>>
        /\ UNCHANGED session_vars
        /\ UNCHANGED <<intent_notes, USE_POSTGRES>>
        /\ UNCHANGED <<now, clockSteps, family_members, inventory_items,
                       claims, distributions, item_suggestions,
                       estate_milestones, timeline_alerts, audit_log>>

\* estates.status: the estate is closed; the row is written outside the
\* sweep, which reads members, items, claims and suggestions only
CloseEstate ==
    /\ estate_status = "active"
    /\ estate_status' = "closed"
    /\ call' = << "close_estate" >>
    /\ raised' = "none"
    /\ lastOp' = "other"
    /\ UNCHANGED <<sweep_pc, updates, arrived, last_update_id, handled,
                   notified_suggestion_ids, notifications>>
    /\ UNCHANGED session_vars
    /\ UNCHANGED <<intent_notes, USE_POSTGRES>>
    /\ UNCHANGED <<now, clockSteps, family_members, inventory_items, claims,
                   distributions, item_suggestions, estate_milestones,
                   timeline_alerts, audit_log>>

\* run_steward as the statements it runs, for sweeps of one estate started
\* by different jobs, none of which takes a lock: first the six
\* resolve_alert_type calls
SweepReset(sweeper) ==
    /\ sweep_pc[sweeper] = "idle"
    /\ timeline_alerts' =
           FoldSeq(resolve_alert_type, timeline_alerts, SweptTypes)
    /\ sweep_pc' = [ sweep_pc EXCEPT ![sweeper] = "reset" ]
    /\ call' = << "sweep_reset", sweeper >>
    /\ raised' = "none"
    /\ lastOp' = "other"
    /\ UNCHANGED <<estate_status, updates, arrived, last_update_id, handled,
                   notified_suggestion_ids, notifications>>
    /\ UNCHANGED session_vars
    /\ UNCHANGED <<intent_notes, USE_POSTGRES>>
    /\ UNCHANGED <<now, clockSteps, family_members, inventory_items, claims,
                   distributions, item_suggestions, estate_milestones,
                   audit_log>>

\* then read_estate_state and the five checks
SweepChecks(sweeper) ==
    /\ sweep_pc[sweeper] = "reset"
    /\ timeline_alerts' = steward_checks_on(timeline_alerts, HomeEstate)
    /\ sweep_pc' = [ sweep_pc EXCEPT ![sweeper] = "checked" ]
    /\ call' = << "sweep_checks", sweeper >>
    /\ raised' = "none"
    /\ lastOp' = "other"
    /\ UNCHANGED <<estate_status, updates, arrived, last_update_id, handled,
                   notified_suggestion_ids, notifications>>
    /\ UNCHANGED session_vars
    /\ UNCHANGED <<intent_notes, USE_POSTGRES>>
    /\ UNCHANGED <<now, clockSteps, family_members, inventory_items, claims,
                   distributions, item_suggestions, estate_milestones,
                   audit_log>>

\* then auto_complete_milestones, which ends the sweep
SweepAutoComplete(sweeper) ==
    /\ sweep_pc[sweeper] = "checked"
    /\ estate_milestones' =
           auto_complete_milestones(estate_milestones,
                                    read_estate_state(HomeEstate))
    /\ sweep_pc' = [ sweep_pc EXCEPT ![sweeper] = "idle" ]
    /\ call' = << "sweep_done", sweeper >>
    /\ raised' = "none"
    /\ lastOp' = "other"
    /\ UNCHANGED <<estate_status, updates, arrived, last_update_id, handled,
                   notified_suggestion_ids, notifications>>
    /\ UNCHANGED session_vars
    /\ UNCHANGED <<intent_notes, USE_POSTGRES>>
    /\ UNCHANGED <<now, clockSteps, family_members, inventory_items, claims,
                   distributions, item_suggestions, timeline_alerts,
                   audit_log>>

\* What the executor writes, what the crew offers, what the extraction
\* returns: end dates absent, empty, no date, past, near and far
DeadlineDays == {3, 20, 200}
TargetEndDates ==
    {None, Text(""), Text("next spring")} \cup { IsoDate(d) : d \in DeadlineDays }
Urgencies == {"urgent", "normal", "relaxed", "whenever"}
Extractions ==
    {ExtractionUnparsable}
        \cup { Extracted(t, u) :
                   t \in TargetEndDates \ {Text(""), IsoDate(20)},
                   u \in Urgencies \ {"normal"} }
FailedExtractions == {ExtractionRaises, ExtractionNotADict}
ScheduleTables ==
    { t \in DurationTables : Cardinality({ t[k] : k \in DOMAIN t }) # 1 }
Messages == {Text("by June"), Text("no hurry")}
OptionSets == {Text("1. concert 2. market"), Text("1. hike")}
SessionExtractions ==
    {ExtractionRaises, ExtractionUnparsable, ExtractionNotADict,
     Extracted(None, "urgent"), Extracted(Text("next spring"), "whenever")}
SessionTables == { t \in DurationTables : DOMAIN t = {} }

\* the texts that arrive at the listener: a message and a command
PollTexts == {Text("by June"), Text("/start")}

\* a tick of the suggestion check, whatever its notifications come to
SuggestionCheckTick ==
    \E returned \in 0..MaxSuggestions, raises \in BOOLEAN :
        SuggestionCheckJob(returned, raises)

Next ==
    \/ \E d \in ClockJumps(AllThresholds) : AdvanceClock(d)
    \/ \E role \in Roles : AddFamilyMember(role)
    \/ \E code \in 1..MaxMembers : MarkMemberJoined(code)
    \/ \E e \in Estates : AddItemTool(e)
    \/ \E i \in 1..MaxItems, m \in Claimants : RecordClaimTool(i, m)
    \/ \E i \in 1..MaxItems, m \in Claimants : ResolveTool(i, m)
    \/ \E e \in Estates : AddSuggestion(e)
    \/ \E s \in 1..MaxSuggestions : ApproveSuggestion(s)
    \/ \E s \in 1..MaxSuggestions : RejectSuggestion(s)
    \/ \E e \in EndDays : FinalizeSchedule(e)
    \/ \E k \in ManualKeys : CompleteMilestone(k)
    \/ \E i \in NoteItems, m \in Claimants, c \in Contents :
           AddIntentNote(i, m, c)
    \/ \E n \in 1..MaxNotes, m \in Claimants, v \in VisibilityInputs :
           SetNoteVisibility(n, m, v)
    \/ RunSteward
    \/ \E check \in 1..steward_checks, written \in 0..MaxMembers :
           RunStewardRaising(check, written)
    \/ \E x \in Extractions \cup FailedExtractions, ok \in BOOLEAN,
          t \in DurationTables :
           FinalizeScheduleFrom(x, ok, t)
    \/ \E text \in Messages, ok \in BOOLEAN, x \in SessionExtractions,
          t \in SessionTables :
           WebhookMessage(text, ok, x, t)
    \/ \E text \in Messages, ok \in BOOLEAN, r \in OptionSets :
           MainMessage(text, ok, r)
    \/ \E ok \in BOOLEAN : MorningGreeting(ok)
    \/ \E ok \in BOOLEAN : MorningJob(ok)
    \/ \E ok \in BOOLEAN : OnboardingCheckJob(ok)
    \/ \E sweeper \in Sweepers : SweepReset(sweeper)
    \/ \E sweeper \in Sweepers : SweepChecks(sweeper)
    \/ \E sweeper \in Sweepers : SweepAutoComplete(sweeper)
    \/ CloseEstate
    \/ \E text \in PollTexts : Arrive(text)
    \/ \E outcome \in ClearOutcomes, ok \in BOOLEAN,
          x \in SessionExtractions, t \in SessionTables :
           Poll(outcome, ok, x, t)
    \/ SuggestionCheckTick

Spec == Init /\ [][Next]_vars

\* The component specifications: the environment performs only the
\* operations on the tables the component reads, the other tables stay
\* empty, and the clock jumps around the thresholds the component uses.

\* the statements these components run are the same for both backends: they
\* start with the default one
InitSqlite == Init /\ ~USE_POSTGRES

\* an item these components may still resolve: not distributed yet, and room
\* left for the row of a second resolution elsewhere
Unsettled(item_id) ==
    /\ inventory_items[item_id].status # "distributed"
    /\ Len(distributions) < MaxDistributions - 1

\* invitations and the clock
NextMembers ==
    \/ \E d \in ClockJumps({member_invite_warning_days,
                            member_invite_critical_days})
                  \cup {(member_invite_critical_days + 1) * TicksPerDay} :
           AdvanceClock(d)
    \/ \E role \in Roles : AddFamilyMember(role)
    \/ \E code \in 1..MaxMembers : MarkMemberJoined(code)
    \/ RunSteward

SpecMembers == InitSqlite /\ [][NextMembers]_vars

\* suggestions of two estates, the review of the pending ones, and the clock
NextSuggestions ==
    \/ \E d \in ClockJumps({suggestion_review_warning_days,
                            suggestion_review_critical_days}) : AdvanceClock(d)
    \/ \E e \in Estates : AddSuggestion(e)
    \/ \E s \in 1..MaxSuggestions :
           ApproveSuggestion(s) /\ item_suggestions[s].status = "pending"
    \/ \E s \in 1..MaxSuggestions :
           RejectSuggestion(s) /\ item_suggestions[s].status = "pending"
    \/ RunSteward

SpecSuggestions == InitSqlite /\ [][NextSuggestions]_vars

\* the audit entries of two estates and the clock
NextActivity ==
    \/ \E d \in ClockJumps({inactivity_days}) \cup {inactivity_days * TicksPerDay} :
           AdvanceClock(d)
    \/ \E e \in Estates : AddItemTool(e)
    \/ RunSteward

SpecActivity == InitSqlite /\ [][NextActivity]_vars

\* the milestone plan and the clock
NextMilestones ==
    \/ \E d \in ClockJumps({milestone_warning_days}) \cup {TicksPerDay} :
           AdvanceClock(d)
    \/ \E e \in EndDays : FinalizeSchedule(e)
    \/ \E k \in ManualKeys : CompleteMilestone(k)
    \/ RunSteward

SpecMilestones == InitSqlite /\ [][NextMilestones]_vars

\* the family and the milestone plan
NextFamily ==
    \/ \E d \in ClockJumps({}) : AdvanceClock(d)
    \/ \E role \in Roles : AddFamilyMember(role)
    \/ \E code \in 1..MaxMembers : MarkMemberJoined(code)
    \/ \E e \in EndDays : FinalizeSchedule(e)
    \/ CompleteMilestone("family_joined")
    \/ RunSteward

SpecFamily == InitSqlite /\ [][NextFamily]_vars

\* the ledger of items, claims and distributions of two estates, each item
\* resolved at most once
NextLedger ==
    \/ \E e \in Estates : AddItemTool(e)
    \/ \E i \in 1..MaxItems, m \in Claimants : RecordClaimTool(i, m)
    \/ \E i \in 1..MaxItems, m \in Claimants :
           ResolveTool(i, m) /\ Unsettled(i)

SpecLedger == InitSqlite /\ [][NextLedger]_vars

\* the claims on a single item of the home estate, resolved at most once,
\* and the clock
NextConflictAges ==
    \/ \E d \in ClockJumps({conflict_warning_days, conflict_critical_days}) :
           AdvanceClock(d)
    \/ (inventory_items = <<>> /\ AddItemTool(HomeEstate))
    \/ \E m \in Claimants : RecordClaimTool(1, m)
    \/ \E m \in Claimants :
           ResolveTool(1, m) /\ Unsettled(1)
    \/ RunSteward

SpecConflictAges == InitSqlite /\ [][NextConflictAges]_vars

\* the ledger of the home estate, each item resolved at most once and in
\* favour of the first claimant, and the milestone plan
NextConflicts ==
    \/ AddItemTool(HomeEstate)
    \/ \E i \in 1..MaxItems, m \in Claimants : RecordClaimTool(i, m)
    \/ \E i \in 1..MaxItems :
           ResolveTool(i, 1) /\ Unsettled(i)
    \/ \E e \in LongEndDays : FinalizeSchedule(e)
    \/ \E k \in {"claims_closed", "conflicts_resolved"} : CompleteMilestone(k)
    \/ RunSteward

SpecConflicts == InitSqlite /\ [][NextConflicts]_vars

\* The sweep with a failing check: members invited and joining, a schedule,
\* the clock, sweeps that complete and sweeps in which a check raises
NextSweepFailure ==
    \/ \E d \in ClockJumps({member_invite_warning_days}) : AdvanceClock(d)
    \/ AddFamilyMember("member")
    \/ \E code \in 1..MaxMembers : MarkMemberJoined(code)
    \/ FinalizeSchedule(member_invite_warning_days)
    \/ RunSteward
    \/ \E check \in 1..steward_checks, written \in 0..MaxMembers :
           RunStewardRaising(check, written)

SpecSweepFailure == InitSqlite /\ [][NextSweepFailure]_vars

\* The closed estate: members invited and joining, a schedule, the clock,
\* the estate closed, and sweeps before and after
NextClosedEstate ==
    \/ \E d \in ClockJumps({member_invite_warning_days}) : AdvanceClock(d)
    \/ AddFamilyMember("member")
    \/ \E code \in 1..MaxMembers : MarkMemberJoined(code)
    \/ FinalizeSchedule(member_invite_warning_days)
    \/ CloseEstate
    \/ RunSteward

SpecClosedEstate == InitSqlite /\ [][NextClosedEstate]_vars

\* The review of suggestions, pending or not, the clock and the sweep
NextReview ==
    \/ \E d \in ClockJumps({suggestion_review_warning_days}) : AdvanceClock(d)
    \/ AddSuggestion(HomeEstate)
    \/ \E s \in 1..MaxSuggestions : ApproveSuggestion(s)
    \/ \E s \in 1..MaxSuggestions : RejectSuggestion(s)
    \/ RunSteward

SpecReview == InitSqlite /\ [][NextReview]_vars

\* The listener: messages and commands arriving at Telegram, the turns of
\* the polling loop, and the job that starts onboarding
NextPoller ==
    \/ \E text \in PollTexts : Arrive(text)
    \/ \E outcome \in ClearOutcomes, ok \in BOOLEAN,
          x \in SessionExtractions, t \in SessionTables :
           Poll(outcome, ok, x, t)
    \/ OnboardingCheckJob(TRUE)

SpecPoller == InitSqlite /\ [][NextPoller]_vars

\* The suggestion check: suggestions of two estates, their review, and the
\* ticks of the job
NextNotify ==
    \/ \E e \in Estates : AddSuggestion(e)
    \/ \E s \in 1..MaxSuggestions : ApproveSuggestion(s)
    \/ \E s \in 1..MaxSuggestions : RejectSuggestion(s)
    \/ SuggestionCheckTick

SpecNotify == InitSqlite /\ [][NextNotify]_vars

\* the interval trigger fires the job again and again
SpecNotifyLive == SpecNotify /\ WF_vars(SuggestionCheckTick)

\* no sweep of the estate is between its first and its last statement
NoSweepRunning == \A sweeper \in Sweepers : sweep_pc[sweeper] = "idle"

\* Overlapping sweeps: members invited and the clock while no sweep runs, and
\* the sweeps of the morning briefing and of the steward job, statement by
\* statement
NextSweepOverlap ==
    \/ \E d \in ClockJumps({member_invite_warning_days}) :
           NoSweepRunning /\ AdvanceClock(d)
    \/ NoSweepRunning /\ AddFamilyMember("member")
    \/ \E sweeper \in Sweepers : SweepReset(sweeper)
    \/ \E sweeper \in Sweepers : SweepChecks(sweeper)
    \/ \E sweeper \in Sweepers : SweepAutoComplete(sweeper)

SpecSweepOverlap == InitSqlite /\ [][NextSweepOverlap]_vars

\* The session: the executor's messages to either listener, the jobs of the
\* scheduler that write the session row, the trigger that opens the day

NextSession ==
    \/ \E text \in Messages, ok \in BOOLEAN, x \in SessionExtractions,
          t \in SessionTables :
           WebhookMessage(text, ok, x, t)
    \/ \E text \in Messages, ok \in BOOLEAN, r \in OptionSets :
           MainMessage(text, ok, r)
    \/ \E ok \in BOOLEAN : MorningGreeting(ok)
    \/ \E ok \in BOOLEAN : MorningJob(ok)
    \/ \E ok \in BOOLEAN : OnboardingCheckJob(ok)

SpecSession == InitSqlite /\ [][NextSession]_vars

\* Onboarding as deployed: the webhook listener and the jobs of the scheduler
NextOnboarding ==
    \/ \E text \in Messages, ok \in BOOLEAN, x \in SessionExtractions,
          t \in SessionTables :
           WebhookMessage(text, ok, x, t)
    \/ \E ok \in BOOLEAN : MorningJob(ok)
    \/ \E ok \in BOOLEAN : OnboardingCheckJob(ok)

SpecOnboarding == InitSqlite /\ [][NextOnboarding]_vars

\* The schedule: the clock, the executor's schedule finalized from what the
\* extraction returned, one milestone completed by hand

NextSchedule ==
    \/ \E d \in {1, 5 * TicksPerDay} : AdvanceClock(d)
    \/ \E x \in Extractions, ok \in BOOLEAN, t \in ScheduleTables :
           FinalizeScheduleFrom(x, ok, t)
    \/ \E x \in FailedExtractions, t \in ScheduleTables :
           FinalizeScheduleFrom(x, TRUE, t)
    \/ CompleteMilestone("claims_closed")

SpecSchedule == Init /\ [][NextSchedule]_vars

\* notes on one item with either text, made public or private by either
\* member, or given a visibility that does not exist
NextNotes ==
    \/ \E m \in Claimants, c \in Contents : AddIntentNote(1, m, c)
    \/ \E n \in 1..MaxNotes, m \in Claimants,
          v \in {"private", "public", "family"} :
           SetNoteVisibility(n, m, v)

SpecNotes == Init /\ [][NextNotes]_vars

\* notes on two items by either member, given any visibility by their author
NextNoteReads ==
    \/ \E i \in NoteItems, m \in Claimants :
           AddIntentNote(i, m, "Mother promised it to me")
    \/ \E n \in DOMAIN intent_notes, v \in Visibilities :
           SetNoteVisibility(n, intent_notes[n].member_id, v)

SpecNoteReads == Init /\ [][NextNoteReads]_vars

----------------------------------------------------------------------------
\* the ledger of the home estate with an item that may carry an empty
\* estate_id (0), and resolve_tool called on any item, distributed or not
NextResolve ==
    \/ \E e \in {0, HomeEstate} : AddItemTool(e)
    \/ \E i \in 1..MaxItems, m \in Claimants : RecordClaimTool(i, m)
    \/ \E i \in 1..MaxItems, m \in Claimants : ResolveTool(i, m)

SpecResolve == InitSqlite /\ [][NextResolve]_vars

\* the audit log has fewer than MaxAuditEntries entries
AuditRoom == Len(audit_log) < MaxAuditEntries

\* every operation of the system while the audit log has room, on one item
\* of the home estate and without the clock
NextAudit ==
    \/ AddFamilyMember("member") /\ AuditRoom
    \/ \E code \in 1..MaxMembers : MarkMemberJoined(code) /\ AuditRoom
    \/ AddItemTool(HomeEstate) /\ inventory_items = <<>> /\ AuditRoom
    \/ RecordClaimTool(1, 1) /\ AuditRoom
    \/ ResolveTool(1, 1) /\ Unsettled(1) /\ AuditRoom
    \/ AddSuggestion(HomeEstate) /\ AuditRoom
    \/ \E s \in 1..MaxSuggestions :
           ApproveSuggestion(s) /\ item_suggestions[s].status = "pending"
                                /\ AuditRoom
    \/ \E s \in 1..MaxSuggestions :
           RejectSuggestion(s) /\ item_suggestions[s].status = "pending"
                               /\ AuditRoom
    \/ AddIntentNote(1, 1, "Mother promised it to me") /\ AuditRoom
    \/ \E n \in 1..MaxNotes, v \in {"public", "family"} :
           SetNoteVisibility(n, 1, v) /\ AuditRoom
    \/ \E e \in LongEndDays : FinalizeSchedule(e) /\ AuditRoom
    \/ CompleteMilestone("family_joined") /\ AuditRoom
    \/ RunSteward /\ AuditRoom

SpecAudit == Init /\ [][NextAudit]_vars

(* What the claims speak of *)

Swept == lastOp = "run_steward"
SweepStep == lastOp' = "run_steward"

AlertRows(alerts, alert_type, subject) ==
    { n \in DOMAIN alerts :
        alerts[n].alert_type = alert_type /\ alerts[n].subject = subject }

\* the active alerts as a set of (type, severity, subject)
ActiveAlertSet == { timeline_alerts[n] : n \in DOMAIN timeline_alerts }

PendingClaims(i) ==
    { c \in DOMAIN claims : claims[c].item_id = i /\ claims[c].status = "pending" }

Conflicted(i) ==
    /\ inventory_items[i].estate_id = HomeEstate
    /\ inventory_items[i].status # "distributed"
    /\ Cardinality(PendingClaims(i)) >= 2

\* exactly `n` alerts of the type for the subject, each of the severity
ExactlyAlerts(alerts, alert_type, subject, n, severity) ==
    /\ Cardinality(AlertRows(alerts, alert_type, subject)) = n
    /\ \A r \in AlertRows(alerts, alert_type, subject) :
           alerts[r].severity = severity

----------------------------------------------------------------------------
(* C1 *)

\* C1: a second sweep right after a sweep, with nothing in between, leaves
\* the same set of active alerts (types, severities, subjects).
C1_SweepIdempotent ==
    [][ (Swept /\ SweepStep) => ActiveAlertSet' = ActiveAlertSet ]_vars

----------------------------------------------------------------------------
(* C2 *)

AlertCause(a) ==
    CASE a.alert_type = "member_not_joined" ->
            /\ a.subject \in DOMAIN family_members
            /\ family_members[a.subject].status = "invited"
            /\ Days(now - family_members[a.subject].invited_at)
                   >= member_invite_warning_days
      [] a.alert_type = "conflict_unresolved" ->
            /\ a.subject \in DOMAIN inventory_items
            /\ Conflicted(a.subject)
      [] a.alert_type = "suggestion_unreviewed" ->
            /\ a.subject \in DOMAIN item_suggestions
            /\ item_suggestions[a.subject].status = "pending"
      [] a.alert_type = "milestone_overdue" ->
            /\ MILESTONE_KEYS[a.subject] \in DOMAIN estate_milestones
            /\ estate_milestones[MILESTONE_KEYS[a.subject]].status # "complete"
            /\ estate_milestones[MILESTONE_KEYS[a.subject]].target_date < now
      [] a.alert_type = "milestone_upcoming" ->
            /\ MILESTONE_KEYS[a.subject] \in DOMAIN estate_milestones
            /\ estate_milestones[MILESTONE_KEYS[a.subject]].status # "complete"
            /\ estate_milestones[MILESTONE_KEYS[a.subject]].target_date >= now
      [] a.alert_type = "inactivity" ->
            \E n \in DOMAIN audit_log : audit_log[n].estate_id = HomeEstate
      [] OTHER -> FALSE

\* C2: after a completed sweep there is at most one active alert per
\* (type, subject), and every active alert's cause still holds.
C2_NoStaleAlert ==
    Swept =>
        /\ \A n, m \in DOMAIN timeline_alerts :
               ( /\ timeline_alerts[n].alert_type = timeline_alerts[m].alert_type
                 /\ timeline_alerts[n].subject = timeline_alerts[m].subject )
                   => n = m
        /\ \A n \in DOMAIN timeline_alerts : AlertCause(timeline_alerts[n])

----------------------------------------------------------------------------
(* C3 *)

\* C3: after a sweep every invited member has exactly one member_not_joined
\* alert when the whole days since the invite are at least 7, of severity
\* critical from 14 days on and info below, and no alert otherwise.
C3_MemberAlerts ==
    Swept =>
        \A i \in DOMAIN family_members :
            LET m    == family_members[i]
                days == Days(now - m.invited_at)
            IN  IF m.status = "invited" /\ days >= 7
                THEN ExactlyAlerts(timeline_alerts, "member_not_joined", i, 1,
                                   IF days >= 14 THEN "critical" ELSE "info")
                ELSE AlertRows(timeline_alerts, "member_not_joined", i) = {}

----------------------------------------------------------------------------
(* C4 *)

\* C4: after a sweep every pending suggestion of the estate has exactly one
\* suggestion_unreviewed alert when the whole days since submission are at
\* least 2, of severity warning from 5 days on and info below; a suggestion
\* that is younger, approved or rejected has none.
C4_SuggestionAlerts ==
    Swept =>
        \A s \in DOMAIN item_suggestions :
            LET row  == item_suggestions[s]
                days == Days(now - row.created_at)
            IN  IF row.estate_id = HomeEstate /\ row.status = "pending" /\ days >= 2
                THEN ExactlyAlerts(timeline_alerts, "suggestion_unreviewed", s, 1,
                                   IF days >= 5 THEN "warning" ELSE "info")
                ELSE AlertRows(timeline_alerts, "suggestion_unreviewed", s) = {}

\* a sweep has found a suggestion pending for 6 days and written its warning
C4_Witness ==
    /\ Swept
    /\ \E s \in DOMAIN item_suggestions :
        /\ item_suggestions[s].status = "pending"
        /\ Days(now - item_suggestions[s].created_at) = 6
        /\ ExactlyAlerts(timeline_alerts, "suggestion_unreviewed", s, 1, "warning")

----------------------------------------------------------------------------
(* C5 *)

\* C5: after a sweep every conflicted item has exactly one
\* conflict_unresolved alert when the whole days since its oldest pending
\* claim are at least 5, of severity critical from 10 days on and warning
\* below; an item that is not conflicted, or whose conflict is younger, has
\* none.
C5_ConflictAlerts ==
    Swept =>
        \A i \in DOMAIN inventory_items :
            LET oldest == CHOOSE c \in PendingClaims(i) :
                              \A d \in PendingClaims(i) :
                                  claims[c].created_at <= claims[d].created_at
                days   == Days(now - claims[oldest].created_at)
            IN  IF Conflicted(i) /\ days >= 5
                THEN ExactlyAlerts(timeline_alerts, "conflict_unresolved", i, 1,
                                   IF days >= 10 THEN "critical" ELSE "warning")
                ELSE AlertRows(timeline_alerts, "conflict_unresolved", i) = {}

\* a sweep has alerted on a conflict whose oldest pending claim is 5 days
\* old while its newest is younger than 5 days
C5_Witness ==
    /\ Swept
    /\ \E i \in DOMAIN inventory_items :
        /\ Conflicted(i)
        /\ \E c \in PendingClaims(i) : Days(now - claims[c].created_at) = 5
        /\ \E c \in PendingClaims(i) : Days(now - claims[c].created_at) < 5
        /\ ExactlyAlerts(timeline_alerts, "conflict_unresolved", i, 1, "warning")

----------------------------------------------------------------------------
(* C6 *)

\* the alert a sweep owes a milestone row: overdue when the target date is in
\* the past, upcoming when the whole days until it are at most 5
MilestoneAlertDue(m) ==
    IF m.status = "complete" THEN "none"
    ELSE IF m.target_date < now THEN "milestone_overdue"
    ELSE IF Days(m.target_date - now) <= 5 THEN "milestone_upcoming"
    ELSE "none"

\* C6: a sweep writes for every milestone that is not complete exactly one
\* alert: milestone_overdue (critical) when its target date is in the past,
\* otherwise milestone_upcoming (info) when the target date is within 5 days,
\* otherwise none; a complete milestone gets neither, and none gets both.
C6_MilestoneAlerts ==
    [][ SweepStep =>
          \A k \in DOMAIN estate_milestones :
              LET due == MilestoneAlertDue(estate_milestones[k])
                  sub == KeyIndex(k)
              IN  /\ IF due = "milestone_overdue"
                     THEN ExactlyAlerts(timeline_alerts', "milestone_overdue",
                                        sub, 1, "critical")
                     ELSE AlertRows(timeline_alerts', "milestone_overdue", sub) = {}
                  /\ IF due = "milestone_upcoming"
                     THEN ExactlyAlerts(timeline_alerts', "milestone_upcoming",
                                        sub, 1, "info")
                     ELSE AlertRows(timeline_alerts', "milestone_upcoming", sub) = {}
      ]_vars

\* a sweep has left one pending milestone overdue, another upcoming exactly 5
\* whole days ahead, a third without alert, and the complete one without alert
C6_Witness ==
    /\ Swept
    /\ \E k \in DOMAIN estate_milestones :
        /\ estate_milestones[k].status = "pending"
        /\ estate_milestones[k].target_date < now
        /\ ExactlyAlerts(timeline_alerts, "milestone_overdue", KeyIndex(k), 1, "critical")
        /\ AlertRows(timeline_alerts, "milestone_upcoming", KeyIndex(k)) = {}
    /\ \E k \in DOMAIN estate_milestones :
        /\ estate_milestones[k].status = "pending"
        /\ Days(estate_milestones[k].target_date - now) = 5
        /\ ExactlyAlerts(timeline_alerts, "milestone_upcoming", KeyIndex(k), 1, "info")
    /\ \E k \in DOMAIN estate_milestones :
        /\ estate_milestones[k].status = "pending"
        /\ Days(estate_milestones[k].target_date - now) > 5
        /\ AlertRows(timeline_alerts, "milestone_upcoming", KeyIndex(k)) = {}
        /\ AlertRows(timeline_alerts, "milestone_overdue", KeyIndex(k)) = {}
    /\ estate_milestones["onboarding_complete"].status = "complete"
    /\ AlertRows(timeline_alerts, "milestone_upcoming", 1) = {}

----------------------------------------------------------------------------
(* C7 *)

HomeAudit == { n \in DOMAIN audit_log : audit_log[n].estate_id = HomeEstate }

\* C7: after a sweep there is exactly one inactivity alert, of severity info,
\* exactly when the estate has audit entries and the most recent one is at
\* least 7 whole days old; otherwise there is none.
C7_InactivityAlert ==
    Swept =>
        IF /\ HomeAudit # {}
           /\ \A n \in HomeAudit : Days(now - audit_log[n].created_at) >= 7
        THEN ExactlyAlerts(timeline_alerts, "inactivity", 0, 1, "info")
        ELSE AlertRows(timeline_alerts, "inactivity", 0) = {}

\* a sweep has found the estate quiet for exactly 7 days, while another
\* estate has a younger entry, and written the inactivity alert
C7_Witness ==
    /\ Swept
    /\ \E n \in HomeAudit : Days(now - audit_log[n].created_at) = 7
    /\ \E n \in DOMAIN audit_log :
          /\ audit_log[n].estate_id # HomeEstate
          /\ Days(now - audit_log[n].created_at) < 7
    /\ ExactlyAlerts(timeline_alerts, "inactivity", 0, 1, "info")

----------------------------------------------------------------------------
(* C8 *)

\* C8: a sweep completes family_joined exactly when the milestone exists and
\* is not complete, the estate has at least one member, and every member
\* that is not the executor has joined.
C8_FamilyJoined ==
    [][ SweepStep =>
          LET open == /\ "family_joined" \in DOMAIN estate_milestones
                      /\ estate_milestones["family_joined"].status # "complete"
              completes ==
                      /\ open
                      /\ estate_milestones'["family_joined"].status = "complete"
              due  == /\ open
                      /\ Len(family_members) >= 1
                      /\ ~ \E i \in DOMAIN family_members :
                             /\ family_members[i].role # "executor"
                             /\ family_members[i].status # "joined"
          IN  completes <=> due
      ]_vars

\* a sweep has completed family_joined with two joined non-executor members
C8_Witness ==
    /\ Swept
    /\ "family_joined" \in DOMAIN estate_milestones
    /\ estate_milestones["family_joined"].notes =
           "All family members joined automatically detected."
    /\ Len(family_members) = 2
    /\ \A i \in DOMAIN family_members :
           family_members[i].role = "member" /\ family_members[i].status = "joined"

----------------------------------------------------------------------------
(* C9 *)

\* C9: a sweep completes conflicts_resolved only in a state without open
\* conflict whose claims_closed milestone is already complete, and a sweep
\* never changes the status of claims_closed.
C9_ConflictsResolved ==
    [][ SweepStep =>
          /\ ( /\ "conflicts_resolved" \in DOMAIN estate_milestones
               /\ estate_milestones["conflicts_resolved"].status # "complete"
               /\ estate_milestones'["conflicts_resolved"].status = "complete" )
                 => /\ ~ \E i \in DOMAIN inventory_items : Conflicted(i)
                    /\ estate_milestones["claims_closed"].status = "complete"
          /\ "claims_closed" \in DOMAIN estate_milestones
                 => estate_milestones'["claims_closed"].status
                        = estate_milestones["claims_closed"].status
      ]_vars

\* a sweep has completed conflicts_resolved after a conflict was resolved
C9_Witness ==
    /\ Swept
    /\ "conflicts_resolved" \in DOMAIN estate_milestones
    /\ estate_milestones["conflicts_resolved"].notes = "No active conflicts detected."
    /\ estate_milestones["claims_closed"].status = "complete"
    /\ Len(distributions) >= 1

----------------------------------------------------------------------------
(* C10 *)

ReportedIn(rep, i) == { n \in DOMAIN rep : rep[n].id = i }

Occurrences(seq, x) == Cardinality({ k \in DOMAIN seq : seq[k] = x })

\* C10: the conflict detector reports exactly the estate's items that have
\* two or more pending claims and are not distributed, each once and with
\* exactly the claimants of its pending claims; an item that has been
\* distributed is not reported.
C10_ConflictDetector ==
    LET rep == build_estate_context_conflicts(HomeEstate)
    IN  /\ \A n \in DOMAIN rep : rep[n].id \in DOMAIN inventory_items
        /\ \A i \in DOMAIN inventory_items :
            IF Conflicted(i)
            THEN /\ Cardinality(ReportedIn(rep, i)) = 1
                 /\ \A n \in ReportedIn(rep, i) :
                      \A name \in { MemberNames[m] : m \in Claimants } :
                          Occurrences(rep[n].claimants, name)
                              = Cardinality({ c \in PendingClaims(i) :
                                                claims[c].member_name = name })
            ELSE ReportedIn(rep, i) = {}
        /\ \A d \in DOMAIN distributions :
               ReportedIn(rep, distributions[d].item_id) = {}

\* an item claimed by exactly two members is reported once with both names
\* while another item has already been distributed
C10_Witness ==
    LET rep == build_estate_context_conflicts(HomeEstate)
    IN  /\ \E i \in DOMAIN inventory_items :
            /\ Cardinality(PendingClaims(i)) = 2
            /\ \E n \in ReportedIn(rep, i) :
                  \A name \in { MemberNames[m] : m \in Claimants } :
                      Occurrences(rep[n].claimants, name) = 1
        /\ Len(distributions) >= 1

(* Distributions *)

\* the Distribution rows that reference an item
DistributionsOf(i) == { d \in DOMAIN distributions : distributions[d].item_id = i }

\* the claims on an item, whatever their status
ClaimsOn(i) == { c \in DOMAIN claims : claims[c].item_id = i }

\* this step is a call of resolve_tool on item i: it appends the item's
\* distribution_recorded audit entry
ResolveStep(i) ==
    /\ Len(audit_log') = Len(audit_log) + 1
    /\ audit_log'[Len(audit_log')].action_type = "distribution_recorded"
    /\ audit_log'[Len(audit_log')].item_id = i

\* C11: after any sequence of resolve operations at most one Distribution row
\* references any given item; resolving an item that is already distributed
\* creates no second Distribution and does not change the recorded winner.
C11_SingleDistribution ==
    /\ [](\A i \in DOMAIN inventory_items : Cardinality(DistributionsOf(i)) <= 1)
    /\ [][\A i \in DOMAIN inventory_items :
            (inventory_items[i].status = "distributed" /\ ResolveStep(i))
                => distributions' = distributions]_vars

\* C12: in every state reached by add-item, record-claim and resolve
\* operations an item is distributed if and only if exactly one Distribution
\* row references it and every claim on it is resolved; no claim on a
\* distributed item is pending.
C12_DistributedIff ==
    \A i \in DOMAIN inventory_items :
        /\ inventory_items[i].status = "distributed"
               <=> /\ Cardinality(DistributionsOf(i)) = 1
                   /\ \A c \in ClaimsOn(i) : claims[c].status = "resolved"
        /\ inventory_items[i].status = "distributed"
               => \A c \in ClaimsOn(i) : claims[c].status # "pending"

\* C13: resolving an item whose estate_id is empty is a no-op or is rejected:
\* the item's status, the status of every claim and the Distribution rows
\* are as they were.
C13_NoEstateNoop ==
    [][\A i \in DOMAIN inventory_items :
          (inventory_items[i].estate_id = 0 /\ ResolveStep(i))
              => /\ inventory_items'[i].status = inventory_items[i].status
                 /\ \A c \in DOMAIN claims : claims'[c].status = claims[c].status
                 /\ distributions' = distributions]_vars

(* The audit log *)

\* C14: the audit log is append-only under every operation: the entries
\* written before are all still there, in order and unchanged in every
\* field, so the log of a later state extends the log of an earlier one.
C14_AppendOnly ==
    [][/\ Len(audit_log') >= Len(audit_log)
       /\ SubSeq(audit_log', 1, Len(audit_log)) = audit_log]_vars

\* four operations of four kinds have written their entries, in the order
\* they were performed
C14_Witness ==
    /\ Len(audit_log) = 4
    /\ audit_log[1].action_type = "item_added"
    /\ audit_log[2].action_type = "note_added"
    /\ audit_log[3].action_type = "distribution_recorded"
    /\ audit_log[4].action_type = "visibility_changed"

\* this step appends at least one audit entry for the estate
Audited(estate_id) ==
    \E n \in (Len(audit_log) + 1)..Len(audit_log') :
        audit_log'[n].estate_id = estate_id

\* C15: every operation that mutates the ledger appends at least one audit
\* entry for the same estate: adding an item, recording a claim, resolving
\* a distribution, adding an intent note, changing a note's visibility,
\* approving or rejecting a suggestion, a member joining, and completing a
\* milestone.
C15_MutationsAudited ==
    [][/\ Len(inventory_items') > Len(inventory_items)
           => Audited(inventory_items'[Len(inventory_items')].estate_id)
       /\ Len(claims') > Len(claims)
           => Audited(claims'[Len(claims')].estate_id)
       /\ \A i \in DOMAIN inventory_items :
              inventory_items'[i] # inventory_items[i]
                  => Audited(inventory_items[i].estate_id)
       /\ Len(distributions') > Len(distributions)
           => Audited(distributions'[Len(distributions')].estate_id)
       /\ Len(intent_notes') > Len(intent_notes)
           => Audited(intent_notes'[Len(intent_notes')].estate_id)
       /\ \A n \in DOMAIN intent_notes :
              intent_notes'[n].visibility # intent_notes[n].visibility
                  => Audited(intent_notes[n].estate_id)
       /\ \A s \in DOMAIN item_suggestions :
              item_suggestions'[s].status # item_suggestions[s].status
                  => Audited(item_suggestions[s].estate_id)
       /\ \A m \in DOMAIN family_members :
              (family_members[m].status # "joined"
                   /\ family_members'[m].status = "joined")
                  => Audited(HomeEstate)
       /\ \A k \in DOMAIN estate_milestones \cap DOMAIN estate_milestones' :
              (estate_milestones[k].status # "complete"
                   /\ estate_milestones'[k].status = "complete")
                  => Audited(HomeEstate)]_vars

(* Intent notes *)

\* the last operation was this note operation
IsCall(c, op) == c # << >> /\ c[1] = op

\* the step appends exactly one audit entry
OneEntryAppended ==
    /\ Len(audit_log') = Len(audit_log) + 1
    /\ SubSeq(audit_log', 1, Len(audit_log)) = audit_log

\* the text is one of the pieces of the entry's summary or a value of its
\* metadata
Mentions(entry, content) ==
    \/ \E k \in DOMAIN entry.public_summary : entry.public_summary[k] = content
    \/ \E k \in DOMAIN entry.metadata \ {"note_id"} : entry.metadata[k] = content

\* C16: adding an intent note always creates the note with visibility
\* private, whoever the author and whatever the content, and appends exactly
\* one note_added audit entry whose summary and metadata record only that
\* the author added a note.
C16_NoteAdded ==
    [][IsCall(call', "add_intent_note") =>
          /\ raised' = "none"
          /\ Len(intent_notes') = Len(intent_notes) + 1
          /\ SubSeq(intent_notes', 1, Len(intent_notes)) = intent_notes
          /\ LET note == intent_notes'[Len(intent_notes')]
             IN  /\ note.item_id = call'[2]
                 /\ note.member_id = call'[3]
                 /\ note.content = call'[4]
                 /\ note.visibility = "private"
          /\ OneEntryAppended
          /\ LET entry == audit_log'[Len(audit_log')]
             IN  /\ entry.action_type = "note_added"
                 /\ entry.actor_name = MemberNames[call'[3]]
                 /\ entry.public_summary
                        = << MemberNames[call'[3]], "added a private note." >>
                 /\ entry.metadata = << >>]_vars

Readable(item_id, member_id, is_morris, is_mediator) ==
    { n \in DOMAIN intent_notes :
        /\ intent_notes[n].item_id = item_id
        /\ \/ intent_notes[n].member_id = member_id
           \/ intent_notes[n].visibility = "public"
           \/ is_morris /\ intent_notes[n].visibility = "morris"
           \/ is_mediator /\ intent_notes[n].visibility = "mediator" }

\* the viewers: the two members and somebody who wrote no note
Viewers == Claimants \cup {3}

\* C18: for every item, viewer and combination of the role flags, reading
\* notes returns exactly the notes of that item for which the viewer is the
\* author, or the visibility is public, or (Morris role and visibility
\* morris), or (mediator role and visibility mediator), each once and as
\* stored; a private note is never returned to a viewer who is not its
\* author.
C18_ReadFilter ==
    \A item_id \in NoteItems, member_id \in Viewers,
       is_morris \in BOOLEAN, is_mediator \in BOOLEAN :
        LET got == get_intent_notes(intent_notes, item_id, member_id,
                                    is_morris, is_mediator)
        IN  /\ { got[k].id : k \in DOMAIN got }
                   = Readable(item_id, member_id, is_morris, is_mediator)
            /\ \A j, k \in DOMAIN got : got[j].id = got[k].id => j = k
            /\ \A k \in DOMAIN got :
                   /\ got[k].content = intent_notes[got[k].id].content
                   /\ got[k].visibility = intent_notes[got[k].id].visibility
                   /\ got[k].visibility = "private"
                          => got[k].member_id = member_id

\* an item carries a note shared with Morris and a private note of the
\* second member: the first member in the Morris role reads one note, a
\* stranger in the mediator role reads none
C18_Witness ==
    /\ \E n \in DOMAIN intent_notes :
           intent_notes[n].item_id = 1 /\ intent_notes[n].visibility = "morris"
    /\ \E n \in DOMAIN intent_notes :
           /\ intent_notes[n].item_id = 1
           /\ intent_notes[n].visibility = "private"
           /\ intent_notes[n].member_id = 2
    /\ Len(get_intent_notes(intent_notes, 1, 1, TRUE, FALSE)) = 1
    /\ get_intent_notes(intent_notes, 1, 3, FALSE, TRUE) = << >>

\* C19: when the author changes a note's visibility from private to public
\* and back to private, the note's content and final visibility equal what
\* they were before, exactly two audit entries have been appended, and
\* neither entry contains the note's content.
C19_RoundTrip ==
    \A note_id \in DOMAIN intent_notes :
        intent_notes[note_id].visibility = "private" =>
            LET member_id == intent_notes[note_id].member_id
                content   == intent_notes[note_id].content
                error1 == set_note_visibility_raises(intent_notes, note_id,
                                                     member_id, "public")
                notes1 == set_note_visibility(intent_notes, note_id, "public")
                log1   == set_note_visibility_audit(
                              audit_log, note_id, MemberNames[member_id],
                              NoteEstate(note_id), NoteItem(note_id), "public")
                error2 == set_note_visibility_raises(notes1, note_id,
                                                     member_id, "private")
                notes2 == set_note_visibility(notes1, note_id, "private")
                log2   == set_note_visibility_audit(
                              log1, note_id, MemberNames[member_id],
                              NoteEstate(note_id), NoteItem(note_id), "private")
            IN  /\ error1 = "none" /\ error2 = "none"
                /\ notes1[note_id].visibility = "public"
                /\ notes1[note_id].content = content
                /\ notes2[note_id].visibility = "private"
                /\ notes2[note_id].content = content
                /\ notes2 = intent_notes
                /\ Len(log2) = Len(audit_log) + 2
                /\ SubSeq(log2, 1, Len(audit_log)) = audit_log
                /\ \A n \in (Len(audit_log) + 1)..Len(log2) :
                       /\ log2[n].action_type = "visibility_changed"
                       /\ ~Mentions(log2[n], content)

\* the author has made a note public and then private again: the last two
\* audit entries are those two changes and the note is private
C19_Witness ==
    /\ IsCall(call, "set_note_visibility")
    /\ raised = "none"
    /\ call[4] = "private"
    /\ intent_notes[call[2]].visibility = "private"
    /\ Len(audit_log) >= 3
    /\ LET made_public  == audit_log[Len(audit_log) - 1]
           made_private == audit_log[Len(audit_log)]
       IN  /\ made_public.action_type = "visibility_changed"
           /\ made_public.metadata.note_id = call[2]
           /\ made_public.metadata.new_visibility = "public"
           /\ made_private.action_type = "visibility_changed"
           /\ made_private.metadata.note_id = call[2]
           /\ made_private.metadata.new_visibility = "private"
           /\ ~Mentions(made_public, intent_notes[call[2]].content)
           /\ ~Mentions(made_private, intent_notes[call[2]].content)

\* the notes table with the texts of the notes replaced by any others
ContentVariants(notes) ==
    { [ n \in DOMAIN notes |-> [ notes[n] EXCEPT !.content = f[n] ] ] :
        f \in [ DOMAIN notes -> Contents ] }

\* C20: the content of an intent note never flows into the audit log: the
\* audit entries and the outcome of every note operation are the same
\* whatever the text of the note added and whatever the texts of the notes
\* stored, so two executions of the same operations that differ only in
\* note contents write identical audit logs; no entry carries a note's text.
C20_NoContentFlow ==
    [][/\ IsCall(call', "add_intent_note") =>
              \A content \in Contents :
                  audit_log' =
                      IF add_intent_note_raises = "none"
                      THEN add_intent_note_audit(
                               audit_log, call'[2], HomeEstate, call'[3],
                               MemberNames[call'[3]], content)
                      ELSE audit_log
       /\ IsCall(call', "set_note_visibility") =>
              \A notes \in ContentVariants(intent_notes) :
                  LET error == set_note_visibility_raises(
                                   notes, call'[2], call'[3], call'[4])
                  IN  /\ raised' = error
                      /\ audit_log' =
                             IF error = "none"
                             THEN set_note_visibility_audit(
                                      audit_log, call'[2],
                                      MemberNames[call'[3]],
                                      NoteEstate(call'[2]), NoteItem(call'[2]),
                                      call'[4])
                             ELSE audit_log
       /\ call' # << >> =>
              \A n \in (Len(audit_log) + 1)..Len(audit_log') :
                  \A content \in Contents : ~Mentions(audit_log'[n], content)]_vars

\* one member has written two notes with different texts and shared the
\* second: the two note_added entries are the same but for their time
C20_Witness ==
    /\ Len(intent_notes) = 2
    /\ intent_notes[1].member_id = intent_notes[2].member_id
    /\ intent_notes[1].content # intent_notes[2].content
    /\ intent_notes[2].visibility = "public"
    /\ Len(audit_log) = 3
    /\ audit_log[1].action_type = "note_added"
    /\ audit_log[2].action_type = "note_added"
    /\ audit_log[1].public_summary = audit_log[2].public_summary
    /\ audit_log[1].metadata = audit_log[2].metadata
    /\ audit_log[3].action_type = "visibility_changed"

----------------------------------------------------------------------------
(* The milestone schedule *)

\* the state is the one _finalize_schedule left after writing a plan
Finalized ==
    /\ IsCall(call, "_finalize_schedule")
    /\ ~finalize_extraction_raises(call[2])

\* what the finalization took from the extraction, and its durations table
FinalizedFields == extracted_fields(call[2])
FinalizedDurations == call[4]

\* the plan was built backward from a deadline given as a date
BuiltFromDeadline ==
    /\ Finalized
    /\ IsIsoFormat(FinalizedFields.target_end_date)

\* the end date given was text that is no date
BuiltFromMalformed ==
    /\ Finalized
    /\ Truthy(FinalizedFields.target_end_date)
    /\ ~IsIsoFormat(FinalizedFields.target_end_date)

\* the stored target dates, in key order
StoredDates ==
    [ i \in DOMAIN MILESTONE_KEYS |->
        estate_milestones[MILESTONE_KEYS[i]].target_date ]

NonDecreasing(dates) ==
    \A i \in 1..(Len(dates) - 1) : dates[i] <= dates[i + 1]

\* the days from the first to the last milestone of a plan
Span(plan) == plan[Len(plan)].target_date - plan[1].target_date

\* C21: in a plan built backward from a deadline D, also one less than 30
\* days away or already past, every target date, that of
\* onboarding_complete included, is at or before D, and
\* distribution_complete is dated D.
C21_WithinDeadline ==
    BuiltFromDeadline =>
        LET D == fromisoformat(FinalizedFields.target_end_date)
        IN  /\ \A k \in DOMAIN estate_milestones :
                   estate_milestones[k].target_date <= D
            /\ estate_milestones["distribution_complete"].target_date = D

\* C22: the target dates of a plan built backward from a deadline are
\* non-decreasing along the fixed key order.
C22_PhaseOrder ==
    BuiltFromDeadline => NonDecreasing(StoredDates)

\* C23: built forward from the same day with the same durations, the plan of
\* urgency urgent spans strictly less than the plan of urgency relaxed, and
\* an urgency that is none of the three gives the plan of urgency normal.
C23_UrgentShorter ==
    \A t \in DurationTables :
        /\ Span(forward_milestone_schedule(now, "urgent", t))
               < Span(forward_milestone_schedule(now, "relaxed", t))
        /\ \A u \in Urgencies \ {"urgent", "normal", "relaxed"} :
               forward_milestone_schedule(now, u, t)
                   = forward_milestone_schedule(now, "normal", t)
        /\ (Finalized /\ ~Truthy(FinalizedFields.target_end_date)
                      /\ FinalizedDurations = t) =>
               \A i \in DOMAIN MILESTONE_KEYS :
                   StoredDates[i] =
                       forward_milestone_schedule(
                           now, FinalizedFields.urgency, t)[i].target_date

\* a plan was built forward with urgency urgent from phases of different
\* lengths, one of them a single day, and with the clock advanced
C23_Witness ==
    /\ Finalized
    /\ ~Truthy(FinalizedFields.target_end_date)
    /\ FinalizedFields.urgency = "urgent"
    /\ now > 0
    /\ \E k \in DOMAIN FinalizedDurations : FinalizedDurations[k] = 1
    /\ StoredDates[Len(MILESTONE_KEYS)] > StoredDates[1]

\* C24: an end date that does not parse raises nothing and gives seven
\* milestones whose dates are computed forward from now, the last one 180
\* days after now, and not backward from a deadline.
C24_MalformedFallsForward ==
    BuiltFromMalformed =>
        /\ DOMAIN estate_milestones
               = { MILESTONE_KEYS[i] : i \in DOMAIN MILESTONE_KEYS }
        /\ StoredDates[Len(MILESTONE_KEYS)] = now + fallback_days * TicksPerDay
        /\ StoredDates[1] = now
        /\ NonDecreasing(StoredDates)

\* C25: whatever the end date, the urgency and the durations, the plan has one
\* milestone for each of the seven keys, in the fixed order, with
\* onboarding_complete dated now and complete and every other one pending;
\* finalizing leaves the estate with the rows of the new plan only.
C25_SevenKeysReplaced ==
    /\ \A target \in TargetEndDates, u \in Urgencies, t \in DurationTables :
           LET plan == build_milestone_schedule_from(now, target, u, t)
           IN  /\ Len(plan) = Len(MILESTONE_KEYS)
               /\ \A i \in DOMAIN plan : plan[i].key = MILESTONE_KEYS[i]
               /\ plan[1].target_date = now
               /\ plan[1].status = "complete"
               /\ \A i \in 2..Len(plan) : plan[i].status = "pending"
    /\ Finalized =>
           LET plan == build_milestone_schedule_from(
                           now, FinalizedFields.target_end_date,
                           FinalizedFields.urgency, FinalizedDurations)
           IN  /\ DOMAIN estate_milestones
                      = { MILESTONE_KEYS[i] : i \in DOMAIN MILESTONE_KEYS }
               /\ \A i \in DOMAIN plan :
                      /\ estate_milestones[plan[i].key].target_date
                             = plan[i].target_date
                      /\ estate_milestones[plan[i].key].status
                             = plan[i].status

\* the estate had a confirmed plan, the clock advanced, and a finalization
\* whose confirmation failed has written the plan again
C25_Witness ==
    /\ Finalized
    /\ call[3] = FALSE
    /\ response = "confirmation"
    /\ now > 0
    /\ estate_milestones["onboarding_complete"].target_date = now
    /\ estate_milestones["onboarding_complete"].status = "complete"

----------------------------------------------------------------------------
(* The session *)

\* the state that follows an onboarding state
OnboardingSuccessor(state) ==
    IF state = "onboarding_q4" THEN "idle" ELSE next_state(state)

\* the answer keys of the questions before the one that `state` asks
AnsweredBefore(state) ==
    CASE state = "onboarding_q2" -> {"q1_deadline"}
      [] state = "onboarding_q3" -> {"q1_deadline", "q2_urgency"}
      [] state = "onboarding_q4" ->
             {"q1_deadline", "q2_urgency", "q3_accommodation"}

\* the step is a message taken by the webhook listener, by the listener of
\* the event cycle, by either
WebhookStep == IsCall(call', "webhook.handle_message")
MainStep == IsCall(call', "main.handle_message")
MessageStep == WebhookStep \/ MainStep

\* the states in which one of the listeners acts on a message
AcceptingStates ==
    OnboardingStates \cup {"waiting_for_preference", "waiting_for_selection"}

\* C26: during onboarding the session state changes only from q1 to q2 to q3
\* to q4 to idle, one step per inbound message; on entering q2, q3, q4 the
\* payload holds exactly the answers to the questions before, and the
\* finalization is given all four answers.
C26_OnboardingOrder ==
    [][LET state  == conversation_state.state
           state2 == conversation_state'.state
       IN  /\ (state \in OnboardingStates /\ state2 # state) =>
                  /\ WebhookStep
                  /\ state2 = OnboardingSuccessor(state)
           /\ (state2 \in OnboardingStates \ {"onboarding_q1"}
                   /\ state2 # state) =>
                  DOMAIN json_loads_answers(conversation_state'.search_results)
                      = AnsweredBefore(state2)
           /\ (WebhookStep /\ state = "onboarding_q4") =>
                  DOMAIN onboarding_answers(conversation_state, call'[2])
                      = { answer_key(q) : q \in OnboardingStates }]_vars

\* C27: when the fourth answer arrives and the extraction fails or returns
\* content that does not parse, the finalization saves a schedule with
\* urgency normal and no target end date, writes the forward plan of urgency
\* normal, and the session state becomes idle.
C27_ExtractionFailureDefaults ==
    [][(/\ WebhookStep
        /\ conversation_state.state = "onboarding_q4"
        /\ call'[3]
        /\ call'[4].kind # "dict") =>
           /\ conversation_state'.state = "idle"
           /\ estate_schedule' = save_schedule(None, "normal")
           /\ \A i \in DOMAIN MILESTONE_KEYS :
                  estate_milestones'[MILESTONE_KEYS[i]].target_date =
                      forward_milestone_schedule(
                          now, "normal", call'[5])[i].target_date]_vars

\* the session row, the schedule and the milestones are as before the step
SessionUntouched ==
    /\ conversation_state' = conversation_state
    /\ estate_schedule' = estate_schedule
    /\ estate_milestones' = estate_milestones

EventCycleSteps ==
    LET state  == conversation_state.state
        state2 == conversation_state'.state
    IN  /\ (state2 = "waiting_for_preference" /\ state2 # state) =>
               IsCall(call', "run_morning_greeting")
        /\ (state2 = "waiting_for_selection" /\ state2 # state) =>
               /\ state = "waiting_for_preference"
               /\ MainStep
               /\ conversation_state' =
                      set_state("waiting_for_selection", call'[2], call'[4])
        /\ (state = "waiting_for_selection" /\ state2 = state) =>
               conversation_state' = conversation_state
        /\ (state2 = "confirmed" /\ state2 # state) =>
               /\ state = "waiting_for_selection"
               /\ MainStep
        /\ (state = "confirmed" /\ state2 # state) =>
               /\ ~MessageStep
               /\ call'[1] \in {"run_morning_greeting", "morning_job",
                                 "onboarding_check_job"}

\* the step is the one that confirms a selection
ConfirmationStep ==
    /\ MainStep
    /\ conversation_state.state = "waiting_for_selection"

\* C29: waiting_for_preference is entered only by the trigger that opens the
\* day, waiting_for_selection only from waiting_for_preference on a message,
\* confirmed only from waiting_for_selection on a selection, and confirmed is
\* left only by a trigger of the scheduler; the message and the option set
\* stored on entering waiting_for_selection are what the confirmation step is
\* given.
C29_EventCycleCarriesBoth ==
    [][/\ EventCycleSteps
       /\ ConfirmationStep =>
              call'[4] = << conversation_state.last_message,
                            conversation_state.search_results >>]_vars

\* C29, amended: the same transitions; the confirmation step is given the
\* inbound selection and the option set stored on entering
\* waiting_for_selection, and not the message stored with it.
C29_EventCycle ==
    [][/\ EventCycleSteps
       /\ ConfirmationStep =>
              call'[4] = << call'[2], conversation_state.search_results >>]_vars

\* a selection that differs from the stored message has been confirmed
\* against the stored option set
C29_Witness ==
    /\ IsCall(call, "main.handle_message")
    /\ conversation_state.state = "confirmed"
    /\ response = "confirmation"
    /\ Len(call) = 4
    /\ call[4][1] = call[2]
    /\ call[4][2] \in OptionSets
    /\ memories # << >>
    /\ memories[Len(memories)].event_type = "preference"
    /\ memories[Len(memories)].summary # call[2]

----------------------------------------------------------------------------
(* The sweep with a failing check *)

\* the step is a sweep in which a check raised
RaisingSweepStep == IsCall(call', "run_steward")

\* C30: when one of the five checks raises, the checks after it still run in
\* that sweep and their alerts are written, and the auto-complete pass still
\* runs.
C30_ChecksIsolated ==
    [][RaisingSweepStep =>
           LET full   == run_steward_alerts(HomeEstate)
               failed == steward_checks_done(HomeEstate, call'[2])
           IN  /\ \A i \in (Len(failed) + 1)..Len(full) :
                      \E j \in DOMAIN timeline_alerts' :
                          timeline_alerts'[j] = full[i]
               /\ estate_milestones' =
                      auto_complete_milestones(
                          estate_milestones,
                          read_estate_state(HomeEstate))]_vars

----------------------------------------------------------------------------
(* Overlapping sweeps *)

\* no sweep of the estate is under way and one has just finished
SweepsFinished ==
    /\ NoSweepRunning
    /\ IsCall(call, "sweep_done")

\* C31: overlapping sweeps of one estate do not interleave their reset and
\* re-derive steps: when they have finished, the active alerts are those of
\* a single sweep, none of them twice and none missing.
C31_SweepsSerialized ==
    SweepsFinished =>
           /\ \A i \in DOMAIN timeline_alerts, j \in DOMAIN timeline_alerts :
                  timeline_alerts[i] = timeline_alerts[j] => i = j
           /\ \A n \in DOMAIN run_steward_alerts(HomeEstate) :
                  \E i \in DOMAIN timeline_alerts :
                      timeline_alerts[i] = run_steward_alerts(HomeEstate)[n]

----------------------------------------------------------------------------
(* The closed estate *)

\* the alert rows that were not among the rows before the step
NewAlerts ==
    { n \in DOMAIN timeline_alerts' :
        \A i \in DOMAIN timeline_alerts :
            timeline_alerts[i] # timeline_alerts'[n] }

\* the milestones the step completes
NewlyComplete ==
    { k \in DOMAIN estate_milestones' :
        /\ estate_milestones'[k].status = "complete"
        /\ k \in DOMAIN estate_milestones
        /\ estate_milestones[k].status # "complete" }

\* C32: once the estate is closed, a sweep of it writes no new alert and
\* completes no milestone.
C32_ClosedEstateNotSwept ==
    [][(estate_status = "closed" /\ SweepStep)
          => (NewAlerts = {} /\ NewlyComplete = {})]_vars

----------------------------------------------------------------------------
(* Joining *)

\* the members whose record the step changes
ChangedMembers ==
    { i \in DOMAIN family_members : family_members'[i] # family_members[i] }

\* C33: a member goes from invited to joined once and never back; redeeming
\* a join code that was redeemed before leaves the record, joined_at
\* included, as it was, and a redemption changes the record of the code's
\* owner only.
C33_JoinedOnce ==
    [][/\ \A i \in DOMAIN family_members :
              family_members[i].status = "joined"
                  => family_members'[i] = family_members[i]
       /\ Cardinality(ChangedMembers) <= 1]_vars

----------------------------------------------------------------------------
(* The status of an item *)

\* the status the claims and distributions of an item stand for
ledger_status(item_id) ==
    IF \E n \in DOMAIN distributions : distributions[n].item_id = item_id
    THEN "distributed"
    ELSE IF get_item_claims(item_id) # << >>
         THEN "claimed"
         ELSE "unclaimed"

\* C34: after any sequence of add-item, record-claim and resolve, the status
\* of an item is distributed when a Distribution refers to it, claimed when
\* it has a pending claim and no Distribution, and unclaimed otherwise.
C34_ItemStatusFollowsLedger ==
    \A item_id \in DOMAIN inventory_items :
        inventory_items[item_id].status = ledger_status(item_id)

----------------------------------------------------------------------------
(* Scheduled jobs during onboarding *)

\* C35: while the session is in onboarding_q1..q4 a scheduled job, such as
\* the morning briefing, changes neither the session state nor the answers
\* collected so far; only an inbound message moves the session on.
C35_JobsLeaveOnboarding ==
    [][(conversation_state.state \in OnboardingStates /\ ~WebhookStep)
          => conversation_state' = conversation_state]_vars

----------------------------------------------------------------------------
(* Milestone alerts after a sweep *)

\* the active milestone alerts that refer to a milestone that is complete
StaleMilestoneAlerts ==
    { n \in DOMAIN timeline_alerts :
        /\ timeline_alerts[n].alert_type
               \in {"milestone_overdue", "milestone_upcoming"}
        /\ \E key \in DOMAIN estate_milestones :
               /\ KeyIndex(key) = timeline_alerts[n].subject
               /\ estate_milestones[key].status = "complete" }

\* C36: after a completed sweep no active milestone_overdue or
\* milestone_upcoming alert refers to a milestone that is complete, the
\* milestones completed by that sweep included.
C36_NoAlertForCompleteMilestone ==
    lastOp = "run_steward" => StaleMilestoneAlerts = {}

----------------------------------------------------------------------------
(* Finalization and the session *)

\* the schedule is saved as onboarding-complete and the milestones are
\* written
ScheduleWritten ==
    /\ estate_schedule # None
    /\ estate_schedule.onboarding_complete
    /\ DOMAIN estate_milestones # {}

\* C37: finalization is all-or-nothing with respect to the session:
\* whenever the schedule is saved as onboarding-complete and the milestones
\* are written, the session is in no onboarding state, so that a failed
\* confirmation cannot leave it in onboarding_q4, where the next message
\* would finalize again.
C37_FinalizedLeavesOnboarding ==
    ScheduleWritten => conversation_state.state \notin OnboardingStates

----------------------------------------------------------------------------
(* The review of a suggestion *)

\* the suggestions that the step takes from pending to approved
NewlyApproved ==
    { s \in DOMAIN item_suggestions :
        /\ item_suggestions[s].status = "pending"
        /\ item_suggestions'[s].status = "approved" }

\* C38: a suggestion is reviewed at most once and yields at most one
\* inventory item: once approved or rejected it is no longer pending, a
\* second approve or reject does not change the decision, and an item is
\* added only for a suggestion that was pending.
C38_ReviewedOnce ==
    [][/\ \A s \in DOMAIN item_suggestions :
              item_suggestions[s].status # "pending"
                  => item_suggestions'[s].status = item_suggestions[s].status
       /\ Len(inventory_items') - Len(inventory_items)
              <= Cardinality(NewlyApproved)]_vars

----------------------------------------------------------------------------
(* The listener *)

\* the updates that have arrived and that Telegram holds no more
Confirmed ==
    { id \in DOMAIN arrived :
        \A n \in DOMAIN updates : updates[n].update_id # id }

\* how often the update was routed to handle_message
TimesHandled(id) == Cardinality({ n \in DOMAIN handled : handled[n] = id })

\* C39: every inbound message that is no command is routed to
\* handle_message exactly once: of several messages that arrive between two
\* polls none is dropped, and none is handled twice, also when clear_updates
\* fails; a message starting with "/" is acknowledged without being routed.
C39_RoutedExactlyOnce ==
    \A id \in DOMAIN arrived :
        IF startswith_slash(arrived[id])
        THEN TimesHandled(id) = 0
        ELSE /\ TimesHandled(id) <= 1
             /\ id \in Confirmed => TimesHandled(id) = 1

----------------------------------------------------------------------------
(* The suggestion check *)

\* the calls of run_suggestion_notification for the suggestion that returned
Returned(alog, sid) ==
    { n \in DOMAIN alog : alog[n] = Attempt(sid, "returned") }

\* the step is a tick of the job in which a notification raises
FailedTick ==
    IsCall(call', "suggestion_check_job") /\ call'[3]

\* the suggestion is pending in the home estate and not yet notified
Unnotified(sid) ==
    /\ sid \in DOMAIN item_suggestions
    /\ item_suggestions[sid].estate_id = HomeEstate
    /\ item_suggestions[sid].status = "pending"
    /\ Returned(notifications, sid) = {}

\* C40: within one process lifetime the suggestion check notifies the
\* executor at most once per suggestion; an id is in the notified set
\* exactly when its notification call has returned, so a suggestion whose
\* notification raised is tried again on a later tick; a raising
\* notification never leaves the job; and when notifications stop failing,
\* every pending suggestion is notified or leaves the pending ones.
C40_NotifiedOnce ==
    /\ [](\A sid \in 1..MaxSuggestions :
             /\ Cardinality(Returned(notifications, sid)) <= 1
             /\ sid \in notified_suggestion_ids
                    <=> Returned(notifications, sid) # {})
    /\ [][IsCall(call', "suggestion_check_job") => raised' = "none"]_vars
    /\ (<>[][~FailedTick]_vars) =>
           \A sid \in 1..MaxSuggestions :
               Unnotified(sid) ~> ~Unnotified(sid)

\* a suggestion whose notification raised on one tick and returned on a
\* later one
C40_Witness ==
    \E sid \in DOMAIN item_suggestions :
        \E i \in DOMAIN notifications, j \in DOMAIN notifications :
            /\ i < j
            /\ notifications[i] = Attempt(sid, "raised")
            /\ notifications[j] = Attempt(sid, "returned")

====
